---- MODULE Spec2Model ----
(***************************************************************************)
(* Model of joshkenney/weather-agent (src/main.go and the loop program of  *)
(* src/test_iqair_multiple.go).                                            *)
(*                                                                         *)
(* The repository holds several programs built around one WeatherAgent:    *)
(*   "agent"    the loop that calls WeatherAgent.update() on every tick    *)
(*   "fetch"    one call of WeatherAgent.fetchWeather()                    *)
(*   "geo"      one call of WeatherAgent.reverseGeocode()                  *)
(*   "updater"  the web server with the background updater goroutine and   *)
(*              the lock-protected latestWeather store                     *)
(*   "ondemand" the web server that runs the pipeline inside /api/weather  *)
(* The variable prog says which program a behaviour belongs to.            *)
(*                                                                         *)
(* Text is a sequence of one-character strings; coordinates are degrees    *)
(* times 10^4; times are seconds.                                          *)
(***************************************************************************)
EXTENDS Integers, Sequences, FiniteSets, TLC

VARIABLES
    prog,            \* which program runs
    config,          \* agent.config
    env,             \* the process environment (WEATHER_CITY, WEATHER_COUNTRY)
    weatherHistory,  \* agent.weatherHistory
    lastMessage,     \* agent.lastMessage
    pushLog,         \* history: every snapshot appended so far, in order
    lastTick,        \* history: what the last pipeline execution did
    call,            \* "fetch"/"geo": the inputs of the call
    ret,             \* "fetch"/"geo": the result of the call
    latestWeather,   \* "updater": the published store
    mu,              \* "updater": the RWMutex embedded in latestWeather
    updater,         \* "updater": the goroutine's position and locals
    handlers,        \* the request handlers' positions and locals
    completed        \* history: the updates the updater has published

vars == <<prog, config, env, weatherHistory, lastMessage, pushLog, lastTick,
          call, ret, latestWeather, mu, updater, handlers, completed>>

(***************************************************************************)
(* Bounds                                                                  *)
(***************************************************************************)
MaxPushes == 26        \* successful fetches of one "agent" behaviour
MaxTextLen == 1        \* length of a text the language model returns
MaxIterations == 2     \* iterations of the updater goroutine's loop
NumReaders == 2        \* requests the "updater" server handles at a time
NumHandlers == 2       \* requests the "ondemand" server handles at a time
MaxRequests == 2       \* requests the "ondemand" server receives
MaxTicks == 3          \* ticks of the agent in the specification of the three programs

(***************************************************************************)
(* Text                                                                    *)
(***************************************************************************)
IsSpace(c) == c \in {" ", "\t", "\n", "\r"}

RECURSIVE TrimLeft(_)
TrimLeft(s) ==
    IF s = <<>> THEN <<>>
    ELSE IF IsSpace(Head(s)) THEN TrimLeft(Tail(s)) ELSE s

RECURSIVE TrimRight(_)
TrimRight(s) ==
    IF s = <<>> THEN <<>>
    ELSE IF IsSpace(s[Len(s)]) THEN TrimRight(SubSeq(s, 1, Len(s) - 1)) ELSE s

TrimSpace(s) == TrimRight(TrimLeft(s))

Digit(d) == <<"0", "1", "2", "3", "4", "5", "6", "7", "8", "9">>[d + 1]

\* t.Format("15:04") of a time whose wall clock reads `wall` seconds
Format1504(wall) ==
    LET minutes == (wall \div 60) % 1440
        hh == minutes \div 60
        mm == minutes % 60
    IN  <<Digit(hh \div 10), Digit(hh % 10), ":", Digit(mm \div 10), Digit(mm % 10)>>

(***************************************************************************)
(* Condition mapping                                                       *)
(***************************************************************************)
\* the condition switch without its default case
weatherCodeToConditionNoDefault(code) ==
    CASE code = 0 -> "Clear"
      [] code = 1 -> "Mainly Clear"
      [] code = 2 \/ code = 3 -> "Clouds"
      [] code >= 45 /\ code <= 49 -> "Fog"
      [] code >= 51 /\ code <= 59 -> "Drizzle"
      [] code >= 61 /\ code <= 69 -> "Rain"
      [] code >= 71 /\ code <= 79 -> "Snow"
      [] code >= 80 /\ code <= 82 -> "Rain"
      [] code >= 85 /\ code <= 86 -> "Snow"
      [] code >= 95 /\ code <= 99 -> "Thunderstorm"
      [] OTHER -> ""

weatherCodeToCondition(code) ==
    CASE code = 0 -> "Clear"
      [] code = 1 -> "Mainly Clear"
      [] code = 2 \/ code = 3 -> "Clouds"
      [] code >= 45 /\ code <= 49 -> "Fog"
      [] code >= 51 /\ code <= 59 -> "Drizzle"
      [] code >= 61 /\ code <= 69 -> "Rain"
      [] code >= 71 /\ code <= 79 -> "Snow"
      [] code >= 80 /\ code <= 82 -> "Rain"
      [] code >= 85 /\ code <= 86 -> "Snow"
      [] code >= 95 /\ code <= 99 -> "Thunderstorm"
      [] OTHER -> "Unknown"

weatherCodeToDescription(code) ==
    CASE code = 0 -> "clear sky"
      [] code = 1 -> "mainly clear"
      [] code = 2 -> "partly cloudy"
      [] code = 3 -> "overcast"
      [] code = 45 -> "fog"
      [] code = 48 -> "depositing rime fog"
      [] code = 51 -> "light drizzle"
      [] code = 53 -> "moderate drizzle"
      [] code = 55 -> "dense drizzle"
      [] code = 61 -> "slight rain"
      [] code = 63 -> "moderate rain"
      [] code = 65 -> "heavy rain"
      [] code = 71 -> "slight snow fall"
      [] code = 73 -> "moderate snow fall"
      [] code = 75 -> "heavy snow fall"
      [] code = 95 -> "thunderstorm"
      [] code = 96 \/ code = 99 -> "thunderstorm with hail"
      [] OTHER -> "unknown conditions"

(***************************************************************************)
(* fetchWeather and the calls it makes                                     *)
(***************************************************************************)
LondonLat == 515074
LondonLon == -1278

\* WeatherResponse{}
ZeroWeather ==
    [Weather |-> <<>>, Temp |-> 0, FeelsLike |-> 0, Humidity |-> 0,
     WindSpeed |-> 0, WindDeg |-> 0, Clouds |-> 0,
     Name |-> <<>>, Country |-> "", Sunrise |-> 0, Sunset |-> 0,
     Dt |-> 0, Timezone |-> 0,
     Rain |-> [OneHour |-> 0, ThreeHours |-> 0],
     Snow |-> [OneHour |-> 0, ThreeHours |-> 0],
     AQIList |-> <<>>, IQAirData |-> [AQI |-> 0, Category |-> ""]]

\* the layouts fetchWeather tries on the provider's time string
timeFormats == <<"2006-01-02T15:04:05Z07:00", "2006-01-02T15:04", "2006-01-02 15:04">>

\* getCoordinates(city, country): geo is the geocoding service's answer to the
\* request; err is "" for nil
getCoordinates(city, country, geo) ==
    IF geo.kind = "ok"
    THEN [err |-> "", lat |-> geo.lat, lon |-> geo.lon]
    ELSE [err |-> geo.kind, lat |-> 0, lon |-> 0]

\* fetchWeather with no fallback: the coordinates getCoordinates returned
coordsAsReturned(g) == [lat |-> g.lat, lon |-> g.lon]

\* fetchWeather: fall back to default coordinates if geocoding fails
coordsOrDefault(g) ==
    IF g.err # ""
    THEN [lat |-> LondonLat, lon |-> LondonLon]
    ELSE [lat |-> g.lat, lon |-> g.lon]

\* the category switch with < for <=
iqairCategoryStrict(aqi) ==
    CASE aqi < 50 -> "Good"
      [] aqi >= 50 /\ aqi < 100 -> "Moderate"
      [] aqi >= 100 /\ aqi < 150 -> "Unhealthy for Sensitive Groups"
      [] aqi >= 150 /\ aqi < 200 -> "Unhealthy"
      [] aqi >= 200 /\ aqi < 300 -> "Very Unhealthy"
      [] OTHER -> "Hazardous"

\* the category switch of fetchIQAirData
iqairCategory(aqi) ==
    CASE aqi <= 50 -> "Good"
      [] aqi > 50 /\ aqi <= 100 -> "Moderate"
      [] aqi > 100 /\ aqi <= 150 -> "Unhealthy for Sensitive Groups"
      [] aqi > 150 /\ aqi <= 200 -> "Unhealthy"
      [] aqi > 200 /\ aqi <= 300 -> "Very Unhealthy"
      [] OTHER -> "Hazardous"

\* getAQICategory(aqi) of the server with the updater goroutine
getAQICategory(aqi) ==
    CASE aqi <= 50 -> "Good"
      [] aqi <= 100 -> "Moderate"
      [] aqi <= 150 -> "Unhealthy for Sensitive Groups"
      [] aqi <= 200 -> "Unhealthy"
      [] aqi <= 300 -> "Very Unhealthy"
      [] OTHER -> "Hazardous"

\* fetchIQAirData that clears the snapshot when the provider fails
fetchIQAirDataClearing(weather, iq) ==
    IF iq.kind = "ok"
    THEN [weather EXCEPT !.IQAirData =
              [AQI |-> iq.aqius, Category |-> iqairCategory(iq.aqius)]]
    ELSE ZeroWeather

\* fetchIQAirData(&weather, lat, lon) with a key of at least four characters;
\* iq is the primary provider's answer
fetchIQAirData(weather, iq) ==
    IF iq.kind = "ok"
    THEN [weather EXCEPT !.IQAirData =
              [AQI |-> iq.aqius, Category |-> iqairCategory(iq.aqius)]]
    ELSE weather

\* the secondary provider's branch of fetchWeather; owm is its answer
fetchOWMData(weather, owm) ==
    IF owm.kind = "ok" /\ Len(owm.list) > 0
    THEN [weather EXCEPT !.AQIList = owm.list]
    ELSE weather

\* the parsed time taken as it is, in UTC, for the instant
ParseLocalTimeNaive(t, offset, now) ==
    IF \E i \in 1..Len(timeFormats) : timeFormats[i] = t.layout
    THEN t.wall
    ELSE now

\* localTime.Unix(): the wall clock fields of the parsed string, read in the
\* fixed zone of the provider's offset; time.Now() when no layout matches
ParseLocalTime(t, offset, now) ==
    IF \E i \in 1..Len(timeFormats) : timeFormats[i] = t.layout
    THEN t.wall - offset
    ELSE now

\* the WeatherResponse built from the weather provider's answer
BuildWeather(name, country, wx, now) ==
    [ZeroWeather EXCEPT
        !.Weather = <<[ID |-> wx.cur.WeatherCode,
                       Main |-> weatherCodeToCondition(wx.cur.WeatherCode),
                       Description |-> weatherCodeToDescription(wx.cur.WeatherCode)]>>,
        !.Temp = wx.cur.Temperature,
        !.FeelsLike = wx.cur.ApparentTemp,
        !.Humidity = wx.cur.RelativeHumidity,
        !.WindSpeed = wx.cur.WindSpeed,
        !.WindDeg = wx.cur.WindDirection,
        !.Clouds = wx.cur.CloudCover,
        !.Name = name,
        !.Country = country,
        !.Dt = ParseLocalTime(wx.cur.Time, wx.TimezoneOffset, now),
        !.Timezone = wx.TimezoneOffset]

\* fetchWeather() up to the WeatherResponse it builds from the weather
\* provider's answer: status "ok" (weather, nil) or "error"
\* (WeatherResponse{}, err); lat/lon are the coordinates of the weather
\* request and calls lists the services called, in order.  The server with
\* the updater goroutine has this as its whole fetchWeather().
fetchWeatherBase(cfg, in) ==
    LET g == getCoordinates(cfg.City, cfg.CountryCode, in.geo)
        c == coordsOrDefault(g)
    IN  IF in.wx.kind # "ok"
        THEN [status |-> "error", err |-> in.wx.kind, weather |-> ZeroWeather,
              lat |-> c.lat, lon |-> c.lon, calls |-> <<"geocode", "weather">>]
        ELSE [status |-> "ok", err |-> "",
              weather |-> BuildWeather(cfg.City, cfg.CountryCode, in.wx, in.now),
              lat |-> c.lat, lon |-> c.lon, calls |-> <<"geocode", "weather">>]

\* fetchWeather() of the agent with the primary air-quality provider: the
\* air-quality stage follows; status "panic" is the run-time panic of the
\* key slice IQAirAPIKey[:4] (slice bounds out of range)
fetchWeather(cfg, in) ==
    LET base == fetchWeatherBase(cfg, in)
    IN  IF base.status # "ok"
        THEN base
        ELSE IF cfg.IQAirAPIKey # <<>>
        THEN IF Len(cfg.IQAirAPIKey) < 4
             THEN [base EXCEPT !.status = "panic", !.weather = ZeroWeather]
             ELSE [base EXCEPT !.weather = fetchIQAirData(base.weather, in.iq),
                               !.calls = Append(base.calls, "iqair")]
        ELSE [base EXCEPT !.weather = fetchOWMData(base.weather, in.owm),
                          !.calls = Append(base.calls, "owm")]

(***************************************************************************)
(* The message pipeline of the agent                                       *)
(***************************************************************************)
HistoryCap == 24

\* Push with the newest entry dropped instead of the oldest
PushDropNewest(history, weather) ==
    LET h == Append(history, weather)
    IN  IF Len(h) > HistoryCap THEN SubSeq(h, 1, Len(h) - 1) ELSE h

\* append to agent.weatherHistory and keep it to a reasonable size
Push(history, weather) ==
    LET h == Append(history, weather)
    IN  IF Len(h) > HistoryCap THEN SubSeq(h, 2, Len(h)) ELSE h

\* one line of the history context: a label, its texts and its numbers
Line(tag, strs, nums) == [tag |-> tag, strs |-> strs, nums |-> nums]

\* generateHistoryContext digesting the last entry instead of the one before it
generateHistoryContextLast(history, cfg) ==
    IF Len(history) <= 1
    THEN <<>>
    ELSE LET prevWeather == history[Len(history)]
             unit == IF cfg.Units = "imperial" THEN "F" ELSE "C"
             wind == IF cfg.Units = "imperial" THEN "mph" ELSE "m/s"
             head == <<Line("Previous weather",
                            Format1504(prevWeather.Dt + prevWeather.Timezone), <<>>)>>
             cond == IF Len(prevWeather.Weather) > 0
                     THEN <<Line("Condition", <<prevWeather.Weather[1].Main,
                                 prevWeather.Weather[1].Description>>, <<>>)>>
                     ELSE <<>>
         IN  head \o cond \o
             <<Line("Temperature", <<unit>>, <<prevWeather.Temp, prevWeather.FeelsLike>>),
               Line("Humidity", <<>>, <<prevWeather.Humidity>>),
               Line("Wind", <<wind>>, <<prevWeather.WindSpeed>>)>>

\* generateHistoryContext(): "" (no line) or the digest of the entry before
\* the last one
generateHistoryContext(history, cfg) ==
    IF Len(history) <= 1
    THEN <<>>
    ELSE LET prevWeather == history[Len(history) - 1]
             unit == IF cfg.Units = "imperial" THEN "F" ELSE "C"
             wind == IF cfg.Units = "imperial" THEN "mph" ELSE "m/s"
             head == <<Line("Previous weather",
                            Format1504(prevWeather.Dt + prevWeather.Timezone), <<>>)>>
             cond == IF Len(prevWeather.Weather) > 0
                     THEN <<Line("Condition", <<prevWeather.Weather[1].Main,
                                 prevWeather.Weather[1].Description>>, <<>>)>>
                     ELSE <<>>
         IN  head \o cond \o
             <<Line("Temperature", <<unit>>, <<prevWeather.Temp, prevWeather.FeelsLike>>),
               Line("Humidity", <<>>, <<prevWeather.Humidity>>),
               Line("Wind", <<wind>>, <<prevWeather.WindSpeed>>)>>

\* the instruction update() appends to the context of its second call
VariationRequest ==
    Line("IMPORTANT: Please generate a completely different message than before.",
         <<>>, <<>>)

\* strings.ToLower on the provider names in use
ToLower(name) ==
    CASE name = "Anthropic" -> "anthropic"
      [] name = "OpenAI" -> "openai"
      [] OTHER -> name

\* generateLLMMessage(): the time24h its prompt restates
promptTime(weather) == Format1504(weather.Dt + weather.Timezone)

\* generateLLMMessage(): reply is the language model service's answer
generateLLMMessage(cfg, weather, historyContext, reply) ==
    IF ToLower(cfg.LLMProvider) \in {"anthropic", "openai"}
    THEN IF reply.kind = "text"
         THEN [err |-> FALSE, text |-> reply.text, called |-> TRUE]
         ELSE [err |-> TRUE, text |-> <<>>, called |-> TRUE]
    ELSE [err |-> TRUE, text |-> <<>>, called |-> FALSE]

\* the time stamp taken from the Unix time without the offset
StampedUtc(weather, message) ==
    <<"[">> \o Format1504(weather.Dt) \o <<"]", " ">> \o message

\* fmt.Sprintf("[%s] %s", currentTime.Format("15:04"), message)
Stamped(weather, message) ==
    <<"[">> \o Format1504(weather.Dt + weather.Timezone) \o <<"]", " ">> \o message

\* dedup with the retry text taken without comparing it to the last message
dedupNoRecheck(message, varied, last, weather) ==
    IF TrimSpace(message) = TrimSpace(last)
    THEN IF ~varied.err
         THEN [text |-> varied.text, path |-> "retry"]
         ELSE [text |-> Stamped(weather, message), path |-> "stamp"]
    ELSE [text |-> message, path |-> "first"]

\* update(), from the duplicate test to the message it stores: message is the
\* first text, varied the result of the second call
dedup(message, varied, last, weather) ==
    IF TrimSpace(message) = TrimSpace(last)
    THEN IF ~varied.err /\ TrimSpace(varied.text) # TrimSpace(last)
         THEN [text |-> varied.text, path |-> "retry"]
         ELSE [text |-> Stamped(weather, message), path |-> "stamp"]
    ELSE [text |-> message, path |-> "first"]

\* the second call's result when the call is not made
NoVaried == [err |-> TRUE, text |-> <<>>, called |-> FALSE]

\* what the last update() did: outcome is "none", "fetch_failed", "panic",
\* "llm_failed" or "stored"; before is lastMessage as it found it, first and
\* varied the results of the two calls
NoTick ==
    [outcome |-> "none", path |-> "none", weather |-> ZeroWeather,
     context |-> <<>>, first |-> <<>>, retried |-> FALSE,
     retryContext |-> <<>>, llmCalls |-> 0, before |-> <<>>, varied |-> NoVaried]

(***************************************************************************)
(* The services' answers                                                   *)
(***************************************************************************)
Chars == {"a", " "}

RECURSIVE TextsUpTo(_)
TextsUpTo(n) ==
    IF n = 0 THEN {<<>>}
    ELSE LET shorter == TextsUpTo(n - 1)
         IN  shorter \cup {Append(t, c) : t \in {u \in shorter : Len(u) = n - 1}, c \in Chars}

LLMTexts == TextsUpTo(MaxTextLen)

LLMReplies ==
    {[kind |-> "text", text |-> t] : t \in LLMTexts}
    \cup {[kind |-> k, text |-> <<>>] : k \in {"api_error", "no_content"}}

BaseWall == 28333440 * 60
ElyTz == 60 * 60

Ely == <<"E", "l", "y">>

\* what the weather provider reports on its k-th successful answer
Reading(k) ==
    [Temperature |-> 10 + (k % 7), ApparentTemp |-> 9 + (k % 5),
     RelativeHumidity |-> 40 + k, WeatherCode |-> <<0, 2, 61, 95, 4>>[(k % 5) + 1],
     CloudCover |-> (k * 10) % 100, WindSpeed |-> k % 6, WindDirection |-> (k * 45) % 360,
     Time |-> [layout |-> "2006-01-02T15:04", wall |-> BaseWall + 60 * k], IsDay |-> 1]

WxFailures == {"weather_request_failed", "weather_api_error", "weather_decode_failed"}

WxAnswers(k) ==
    {[kind |-> "ok", cur |-> Reading(k), TimezoneOffset |-> ElyTz]}
    \cup {[kind |-> f, cur |-> Reading(0), TimezoneOffset |-> 0] : f \in WxFailures}

GeoFailures ==
    {"geocode_request_failed", "geocode_api_error", "geocode_parse_failed",
     "geocode_no_locations"}

GeoAnswers ==
    {[kind |-> "ok", lat |-> 523993, lon |-> 2622]}
    \cup {[kind |-> f, lat |-> 0, lon |-> 0] : f \in GeoFailures}

Unreachable == [kind |-> "aqi_request_failed", aqius |-> 0, list |-> <<>>]

\* the answers one tick of the "agent" program can get
TickInputs ==
    [geo : {g \in GeoAnswers : g.kind \in {"ok", "geocode_no_locations"}},
     wx : {w \in WxAnswers(Len(pushLog) + 1) : w.kind \in {"ok", "weather_api_error"}},
     iq : {Unreachable}, owm : {Unreachable}, now : {BaseWall}]

(***************************************************************************)
(* Program "agent": update() on every tick                                 *)
(***************************************************************************)
NoCall == [fn |-> "none"]
EmptyStore == [Message |-> <<>>, City |-> <<>>, Country |-> "", Timestamp |-> 0, WeatherData |-> <<>>]

Idle ==
    /\ call = NoCall
    /\ ret = NoCall
    /\ latestWeather = EmptyStore
    /\ mu = [writer |-> FALSE, readers |-> 0]
    /\ updater = [pc |-> "off"]
    /\ handlers = <<>>
    /\ completed = {}
    /\ env = <<>>

AgentConfigs ==
    [City : {Ely}, CountryCode : {"GB"}, Units : {"metric"},
     IQAirAPIKey : {<<>>}, LLMProvider : {"Anthropic", "gemini"}]

\* NewWeatherAgent(config)
NewWeatherAgent ==
    /\ weatherHistory = <<>>
    /\ lastMessage = <<>>
    /\ pushLog = <<>>
    /\ lastTick = NoTick

Init ==
    /\ prog = "agent"
    /\ config \in AgentConfigs
    /\ NewWeatherAgent
    /\ Idle

\* update() with the append ahead of the error check
historyAfterFetchUnchecked(history, f) == Push(history, f.weather)

\* update(): fetchWeather's error ends the tick before the snapshot is
\* appended to weatherHistory
historyAfterFetch(history, f) ==
    IF f.status = "ok" THEN Push(history, f.weather) ELSE history

\* the duplicate test that takes every message for a duplicate
isDuplicateAlways(message, last) == TRUE

\* update(): the message is too similar to the last one
isDuplicate(message, last) == TrimSpace(message) = TrimSpace(last)

\* update() with the assignment to lastMessage ahead of the error check
messageAfterFirstUnchecked(last, first) == first.text

\* update(): generateLLMMessage's error ends the tick before lastMessage is
\* assigned; first is the result of the first call
messageAfterFirst(last, first) ==
    IF first.err THEN last ELSE first.text

\* update(): in are the answers to fetchWeather's requests; the language
\* model's answers to the first and the second call are drawn when the call
\* is made
update(in) ==
    /\ prog = "agent"
    /\ Len(pushLog) < MaxPushes
    /\ LET f == fetchWeather(config, in)
           history == historyAfterFetch(weatherHistory, f)
           historyContext == generateHistoryContext(history, config)
           retryContext == historyContext \o <<VariationRequest>>
           tick == [NoTick EXCEPT !.before = lastMessage]
       IN  IF f.status = "error"
           THEN /\ lastTick' = [tick EXCEPT !.outcome = "fetch_failed"]
                /\ weatherHistory' = history
                /\ UNCHANGED <<prog, lastMessage, pushLog>>
           ELSE IF f.status = "panic"
           THEN /\ prog' = "crashed"
                /\ lastTick' = [tick EXCEPT !.outcome = "panic"]
                /\ UNCHANGED <<weatherHistory, lastMessage, pushLog>>
           ELSE /\ weatherHistory' = history
                /\ pushLog' = Append(pushLog, f.weather)
                /\ UNCHANGED prog
                /\ \E reply1 \in LLMReplies :
                     LET first == generateLLMMessage(config, f.weather, historyContext, reply1)
                         ran == [tick EXCEPT !.weather = f.weather,
                                             !.context = historyContext,
                                             !.first = first.text]
                     IN  IF first.err
                         THEN /\ lastTick' = [ran EXCEPT !.outcome = "llm_failed",
                                                  !.llmCalls = IF first.called THEN 1 ELSE 0]
                              /\ lastMessage' = messageAfterFirst(lastMessage, first)
                         ELSE IF isDuplicate(first.text, lastMessage)
                         THEN \E reply2 \in LLMReplies :
                                LET varied == generateLLMMessage(config, f.weather,
                                                                 retryContext, reply2)
                                    stored == dedup(first.text, varied, lastMessage, f.weather)
                                IN  /\ lastMessage' = stored.text
                                    /\ lastTick' = [ran EXCEPT !.outcome = "stored",
                                                        !.path = stored.path,
                                                        !.retried = TRUE,
                                                        !.retryContext = retryContext,
                                                        !.varied = varied,
                                                        !.llmCalls = 2]
                         ELSE LET stored == dedup(first.text, NoVaried, lastMessage, f.weather)
                              IN  /\ lastMessage' = stored.text
                                  /\ lastTick' = [ran EXCEPT !.outcome = "stored",
                                                      !.path = stored.path,
                                                      !.llmCalls = 1]
    /\ UNCHANGED <<config, env, call, ret, latestWeather, mu, updater, handlers, completed>>

Next ==
    \E in \in TickInputs : update(in)

Spec == Init /\ [][Next]_vars

(***************************************************************************)
(* Program "fetch": one call of fetchWeather()                             *)
(***************************************************************************)
IqFailures ==
    {"iqair_request_failed", "iqair_api_error", "iqair_read_failed",
     "iqair_decode_failed", "iqair_not_success"}

IqAnswers ==
    {[kind |-> "ok", aqius |-> v, list |-> <<>>] : v \in {0, 45, 120, 301}}
    \cup {[kind |-> f, aqius |-> 0, list |-> <<>>] : f \in IqFailures}

OwmFailures == {"aqi_request_failed", "aqi_api_error", "aqi_decode_failed"}

OwmAnswers ==
    {[kind |-> "ok", aqius |-> 0, list |-> l] : l \in {<<>>, <<2>>, <<3, 1>>}}
    \cup {[kind |-> f, aqius |-> 0, list |-> <<>>] : f \in OwmFailures}

FetchWxAnswers ==
    WxAnswers(1)
    \cup {[kind |-> "ok",
           cur |-> [Reading(2) EXCEPT !.Time = [layout |-> "02 Jan 06 15:04", wall |-> BaseWall]],
           TimezoneOffset |-> 0 - 5 * 60 * 60]}

FetchInputs ==
    [geo : GeoAnswers, wx : FetchWxAnswers, iq : IqAnswers, owm : OwmAnswers,
     now : {BaseWall + 7}]

FetchConfigs ==
    [City : {Ely}, CountryCode : {"GB"}, Units : {"metric"},
     IQAirAPIKey : {<<>>, <<"k", "e">>, <<"k", "e", "y", "1", "2">>},
     LLMProvider : {"Anthropic"}]

AgentUnused ==
    /\ weatherHistory = <<>>
    /\ lastMessage = <<>>
    /\ pushLog = <<>>
    /\ lastTick = NoTick

InitFetch ==
    /\ prog = "fetch"
    /\ config \in FetchConfigs
    /\ AgentUnused
    /\ Idle

\* agent.fetchWeather() with the services answering in
fetchCall(in) ==
    /\ prog = "fetch"
    /\ call = NoCall
    /\ call' = [fn |-> "fetchWeather", in |-> in]
    /\ ret' = fetchWeather(config, in)
    /\ UNCHANGED <<prog, config, env, weatherHistory, lastMessage, pushLog, lastTick,
                   latestWeather, mu, updater, handlers, completed>>

NextFetch == \E in \in FetchInputs : fetchCall(in)

SpecFetch == InitFetch /\ [][NextFetch]_vars

\* the service svc was called during the call that returned r
Called(r, svc) == \E i \in 1..Len(r.calls) : r.calls[i] = svc

(***************************************************************************)
(* Reverse geocoding                                                       *)
(***************************************************************************)
\* strings.Contains(s, sub)
Contains(s, sub) ==
    \E i \in 0..(Len(s) - Len(sub)) : SubSeq(s, i + 1, i + Len(sub)) = sub

Location == <<"L", "o", "c", "a", "t", "i", "o", "n">>

\* strings.ToUpper on the country codes in use
ToUpper(code) ==
    CASE code = "gb" -> "GB"
      [] code = "it" -> "IT"
      [] code = "us" -> "US"
      [] OTHER -> code

RECURSIVE Decimal(_)
\* the decimal digits of a natural number
Decimal(n) == IF n < 10 THEN <<Digit(n)>> ELSE Append(Decimal(n \div 10), Digit(n % 10))

\* fmt.Sprintf("%.2f", x) for x given in units of 10^-4
Format2f(x) ==
    LET abs == IF x < 0 THEN 0 - x ELSE x
        h == (abs + 50) \div 100
        sign == IF x < 0 THEN <<"-">> ELSE <<>>
    IN  sign \o Decimal(h \div 100) \o <<".", Digit((h % 100) \div 10), Digit(h % 10)>>

\* tryBigDataCloudGeocode: a is the service's answer
tryBigDataCloudGeocode(a) ==
    IF a.kind # "ok"
    THEN [name |-> <<>>, country |-> ""]
    ELSE LET cityName == IF a.City = <<>> THEN a.Locality ELSE a.City
         IN  IF cityName # <<>>
             THEN [name |-> cityName, country |-> ToUpper(a.CountryCode)]
             ELSE [name |-> <<>>, country |-> ""]

\* tryNominatimGeocode: b is the service's answer
tryNominatimGeocode(b) ==
    IF b.kind # "ok"
    THEN [name |-> <<>>, country |-> ""]
    ELSE LET cityName ==
                 IF b.City # <<>> THEN b.City
                 ELSE IF b.Town # <<>> THEN b.Town
                 ELSE IF b.Village # <<>> THEN b.Village
                 ELSE IF b.Municipality # <<>> THEN b.Municipality
                 ELSE IF b.County # <<>> THEN b.County
                 ELSE <<>>
         IN  IF cityName # <<>>
             THEN [name |-> cityName, country |-> ToUpper(b.CountryCode)]
             ELSE [name |-> <<>>, country |-> ""]

\* the table of guessLocationFromCoordinates
cities ==
    <<[name |-> <<"N", "e", "w", " ", "Y", "o", "r", "k">>, country |-> "US",
       lat |-> 407128, lon |-> -740060, radius |-> 5000],
      [name |-> <<"L", "o", "s", " ", "A", "n", "g", "e", "l", "e", "s">>, country |-> "US",
       lat |-> 340522, lon |-> -1182437, radius |-> 5000],
      [name |-> <<"C", "h", "i", "c", "a", "g", "o">>, country |-> "US",
       lat |-> 418781, lon |-> -876298, radius |-> 3000],
      [name |-> <<"L", "o", "n", "d", "o", "n">>, country |-> "GB",
       lat |-> 515074, lon |-> -1278, radius |-> 3000],
      [name |-> <<"P", "a", "r", "i", "s">>, country |-> "FR",
       lat |-> 488566, lon |-> 23522, radius |-> 3000],
      [name |-> <<"T", "o", "k", "y", "o">>, country |-> "JP",
       lat |-> 356762, lon |-> 1396503, radius |-> 5000],
      [name |-> <<"S", "y", "d", "n", "e", "y">>, country |-> "AU",
       lat |-> -338688, lon |-> 1512093, radius |-> 3000],
      [name |-> <<"T", "o", "r", "o", "n", "t", "o">>, country |-> "CA",
       lat |-> 436532, lon |-> -793832, radius |-> 3000]>>

Abs(x) == IF x < 0 THEN 0 - x ELSE x

\* latDiff*latDiff + lonDiff*lonDiff < radius*radius; a difference of at least
\* the radius decides the test before the squares are taken
Within(lat, lon, city) ==
    LET latDiff == lat - city.lat
        lonDiff == lon - city.lon
    IN  /\ Abs(latDiff) < city.radius
        /\ Abs(lonDiff) < city.radius
        /\ latDiff * latDiff + lonDiff * lonDiff < city.radius * city.radius

\* guessLocationFromCoordinates: the first city of the table the coordinates
\* are near, else the coordinates themselves
guessLocationFromCoordinates(lat, lon) ==
    LET hits == {i \in 1..Len(cities) : Within(lat, lon, cities[i])}
    IN  IF hits # {}
        THEN LET first == CHOOSE i \in hits : \A j \in hits : i <= j
             IN  [name |-> cities[first].name, country |-> cities[first].country]
        ELSE [name |-> Location \o <<" ">> \o Format2f(lat) \o <<",">> \o Format2f(lon),
              country |-> "Unknown"]

\* reverseGeocode that takes whatever non-empty name the first service gives
reverseGeocodeTrusting(a, b, lat, lon) ==
    LET first == tryBigDataCloudGeocode(a)
        second == tryNominatimGeocode(b)
        third == guessLocationFromCoordinates(lat, lon)
    IN  IF first.name # <<>>
        THEN [name |-> first.name, country |-> first.country,
              consulted |-> <<"BigDataCloud">>]
        ELSE IF second.name # <<>> /\ ~Contains(second.name, Location)
        THEN [name |-> second.name, country |-> second.country,
              consulted |-> <<"BigDataCloud", "Nominatim">>]
        ELSE [name |-> third.name, country |-> third.country,
              consulted |-> <<"BigDataCloud", "Nominatim", "table">>]

\* reverseGeocode(lat, lon): a and b are the answers of the two services;
\* consulted lists the sources asked, in order
reverseGeocode(a, b, lat, lon) ==
    LET first == tryBigDataCloudGeocode(a)
        second == tryNominatimGeocode(b)
        third == guessLocationFromCoordinates(lat, lon)
    IN  IF first.name # <<>> /\ ~Contains(first.name, Location)
        THEN [name |-> first.name, country |-> first.country,
              consulted |-> <<"BigDataCloud">>]
        ELSE IF second.name # <<>> /\ ~Contains(second.name, Location)
        THEN [name |-> second.name, country |-> second.country,
              consulted |-> <<"BigDataCloud", "Nominatim">>]
        ELSE [name |-> third.name, country |-> third.country,
              consulted |-> <<"BigDataCloud", "Nominatim", "table">>]

\* fetchWeatherByCoordinates(lat, lon): the weather provider answers in.wx
\* and, once its answer is parsed, the two reverse-geocoding services answer
\* in.a and in.b; there is no air-quality stage
fetchWeatherByCoordinates(cfg, lat, lon, in) ==
    IF in.wx.kind # "ok"
    THEN [status |-> "error", err |-> in.wx.kind, weather |-> ZeroWeather,
          lat |-> lat, lon |-> lon, calls |-> <<"weather">>]
    ELSE LET place == reverseGeocode(in.a, in.b, lat, lon)
         IN  [status |-> "ok", err |-> "",
              weather |-> BuildWeather(place.name, place.country, in.wx, in.now),
              lat |-> lat, lon |-> lon,
              calls |-> <<"weather">> \o place.consulted]

(***************************************************************************)
(* Program "geo": one call of reverseGeocode()                             *)
(***************************************************************************)
Bow == <<"B", "o", "w">>
Rome == <<"R", "o", "m", "e">>
Placeholder == <<"M", "y", " ">> \o Location

BdcAnswers ==
    {[kind |-> "ok", City |-> c[1], Locality |-> c[2], CountryCode |-> "gb"] :
        c \in {<<Ely, Bow>>, <<<<>>, Bow>>, <<<<>>, <<>>>>, <<Placeholder, Bow>>,
               <<<<>>, Location>>}}
    \cup {[kind |-> f, City |-> <<>>, Locality |-> <<>>, CountryCode |-> ""] :
            f \in {"bdc_request_failed", "bdc_api_error", "bdc_decode_failed"}}

NominatimAddress(city, town, village, municipality, county) ==
    [kind |-> "ok", City |-> city, Town |-> town, Village |-> village,
     Municipality |-> municipality, County |-> county, CountryCode |-> "it"]

NominatimAnswers ==
    {NominatimAddress(Rome, Bow, <<>>, <<>>, <<>>),
     NominatimAddress(<<>>, Bow, Ely, <<>>, <<>>),
     NominatimAddress(<<>>, <<>>, Ely, Rome, <<>>),
     NominatimAddress(<<>>, <<>>, <<>>, Rome, Bow),
     NominatimAddress(<<>>, <<>>, <<>>, <<>>, Bow),
     NominatimAddress(<<>>, <<>>, <<>>, <<>>, <<>>),
     NominatimAddress(Placeholder, Bow, <<>>, <<>>, <<>>)}
    \cup {[NominatimAddress(<<>>, <<>>, <<>>, <<>>, <<>>) EXCEPT !.kind = f, !.CountryCode = ""] :
            f \in {"nominatim_request_failed", "nominatim_api_error",
                   "nominatim_decode_failed"}}

\* New York, inside and just outside Chicago's radius, London, Paris, the
\* Gulf of Guinea and the South Atlantic
GeoPoints ==
    {<<407128, -740060>>, <<418781, -873299>>, <<418781, -873198>>,
     <<515074, -1278>>, <<490000, 25000>>, <<0, 0>>, <<-123456, -9876>>}

InitGeo ==
    /\ prog = "geo"
    /\ config \in FetchConfigs
    /\ config.IQAirAPIKey = <<>>
    /\ AgentUnused
    /\ Idle

\* agent.reverseGeocode(lat, lon) with the two services answering a and b
reverseGeocodeCall(a, b, lat, lon) ==
    /\ prog = "geo"
    /\ call = NoCall
    /\ call' = [fn |-> "reverseGeocode", a |-> a, b |-> b, lat |-> lat, lon |-> lon]
    /\ ret' = reverseGeocode(a, b, lat, lon)
    /\ UNCHANGED <<prog, config, env, weatherHistory, lastMessage, pushLog, lastTick,
                   latestWeather, mu, updater, handlers, completed>>

NextGeo ==
    \E a \in BdcAnswers, b \in NominatimAnswers, p \in GeoPoints :
        reverseGeocodeCall(a, b, p[1], p[2])

SpecGeo == InitGeo /\ [][NextGeo]_vars

(***************************************************************************)
(* prepareWeatherData                                                      *)
(***************************************************************************)
\* the map m with the entries of n added
Merge(m, n) ==
    [k \in DOMAIN m \cup DOMAIN n |-> IF k \in DOMAIN n THEN n[k] ELSE m[k]]

\* t.Format("3:04 PM") of a time whose wall clock reads `wall` seconds
Format304PM(wall) ==
    LET minutes == (wall \div 60) % 1440
        hh == minutes \div 60
        mm == minutes % 60
        h12 == IF hh % 12 = 0 THEN 12 ELSE hh % 12
    IN  (IF h12 >= 10 THEN <<Digit(h12 \div 10)>> ELSE <<>>)
        \o <<Digit(h12 % 10), ":", Digit(mm \div 10), Digit(mm % 10), " ">>
        \o (IF hh < 12 THEN <<"A", "M">> ELSE <<"P", "M">>)

\* getTempUnit()
getTempUnit(cfg) == IF cfg.Units = "imperial" THEN "F" ELSE "C"

\* getAQIDescription(aqi): the label, the value in brackets and the advice
getAQIDescription(aqi) ==
    CASE aqi = 1 -> <<"Good", "(1)", "Air quality is considered satisfactory, and air pollution poses little or no risk.">>
      [] aqi = 2 -> <<"Fair", "(2)", "Air quality is acceptable; however, for some pollutants there may be a moderate health concern for a very small number of people.">>
      [] aqi = 3 -> <<"Moderate", "(3)", "Members of sensitive groups may experience health effects. The general public is not likely to be affected.">>
      [] aqi = 4 -> <<"Poor", "(4)", "Everyone may begin to experience health effects; members of sensitive groups may experience more serious health effects.">>
      [] aqi = 5 -> <<"Very Poor", "(5)", "Health warnings of emergency conditions. The entire population is more likely to be affected.">>
      [] OTHER -> <<"Unknown AQI value:", aqi>>

\* localTime.Hour() of the snapshot's time in the zone of its offset
localHour(weather) == ((weather.Dt + weather.Timezone) % 86400) \div 3600

\* the day/night test that trusts the clock alone
isDaytimeByClock(weather) == localHour(weather) >= 6 /\ localHour(weather) < 20

\* isDaytime: the hour of day, and sunrise/sunset when the snapshot has both
isDaytime(weather) ==
    IF weather.Sunrise > 0 /\ weather.Sunset > 0
    THEN weather.Dt >= weather.Sunrise /\ weather.Dt < weather.Sunset
    ELSE localHour(weather) >= 6 /\ localHour(weather) < 20

\* the moon phase switch; the thresholds compare (days % 30) / 29.53
moonPhase(unix) ==
    LET daysSinceNewMoon == (unix - 947182440) \div 86400
        age == (daysSinceNewMoon % 30) * 100000     \* moonAge * 2953000
    IN  CASE age < 25 * 2953 \/ age >= 975 * 2953 -> "New Moon"
          [] age >= 25 * 2953 /\ age < 225 * 2953 -> "Waxing Crescent"
          [] age >= 225 * 2953 /\ age < 275 * 2953 -> "First Quarter"
          [] age >= 275 * 2953 /\ age < 475 * 2953 -> "Waxing Gibbous"
          [] age >= 475 * 2953 /\ age < 525 * 2953 -> "Full Moon"
          [] age >= 525 * 2953 /\ age < 725 * 2953 -> "Waning Gibbous"
          [] age >= 725 * 2953 /\ age < 775 * 2953 -> "Last Quarter"
          [] OTHER -> "Waning Crescent"

\* the wind switch without the wrap of N below 22.5
windDirectionTextNoWrap(deg) ==
    CASE deg * 10 >= 3375 -> "N"
      [] deg * 10 >= 225 /\ deg * 10 < 675 -> "NE"
      [] deg * 10 >= 675 /\ deg * 10 < 1125 -> "E"
      [] deg * 10 >= 1125 /\ deg * 10 < 1575 -> "SE"
      [] deg * 10 >= 1575 /\ deg * 10 < 2025 -> "S"
      [] deg * 10 >= 2025 /\ deg * 10 < 2475 -> "SW"
      [] deg * 10 >= 2475 /\ deg * 10 < 2925 -> "W"
      [] deg * 10 >= 2925 /\ deg * 10 < 3375 -> "NW"
      [] OTHER -> ""

\* the wind switch with sectors that start at the compass points
windDirectionTextFromPoint(deg) ==
    CASE deg >= 360 \/ deg < 45 -> "N"
      [] deg >= 45 /\ deg < 90 -> "NE"
      [] deg >= 90 /\ deg < 135 -> "E"
      [] deg >= 135 /\ deg < 180 -> "SE"
      [] deg >= 180 /\ deg < 225 -> "S"
      [] deg >= 225 /\ deg < 270 -> "SW"
      [] deg >= 270 /\ deg < 315 -> "W"
      [] deg >= 315 /\ deg < 360 -> "NW"
      [] OTHER -> ""

\* the switch on windDegree; deg are whole degrees
windDirectionText(deg) ==
    CASE deg * 10 >= 3375 \/ deg * 10 < 225 -> "N"
      [] deg * 10 >= 225 /\ deg * 10 < 675 -> "NE"
      [] deg * 10 >= 675 /\ deg * 10 < 1125 -> "E"
      [] deg * 10 >= 1125 /\ deg * 10 < 1575 -> "SE"
      [] deg * 10 >= 1575 /\ deg * 10 < 2025 -> "S"
      [] deg * 10 >= 2025 /\ deg * 10 < 2475 -> "SW"
      [] deg * 10 >= 2475 /\ deg * 10 < 2925 -> "W"
      [] deg * 10 >= 2925 /\ deg * 10 < 3375 -> "NW"
      [] OTHER -> ""

\* the temperature taken as Fahrenheit whatever the units
tempFUnconverted(temp, cfg) == temp * 10

\* tempF in tenths of a degree: whole degrees Celsius are converted when the
\* units are metric
tempF(temp, cfg) ==
    IF cfg.Units = "metric" THEN temp * 18 + 320 ELSE temp * 10

\* the Rothfusz formula in hundredths of a degree Fahrenheit, for tF tenths of
\* a degree and h per cent; the coefficients are cut so that no product leaves
\* 32 bits, which keeps the result within about two degrees
rothfusz(tF, h) ==
    0 - 4238 + (2049 * tF) \div 100 + (101433 * h) \div 100
      - (tF * h * 2248) \div 1000
      - (684 * ((tF * tF) \div 10)) \div 10000
      - (5482 * h * h) \div 1000
      + (((tF * tF * h) \div 100) * 123) \div 1000
      + (85 * tF * h * h) \div 10000
      - (199 * ((tF * h) \div 100) * ((tF * h) \div 100)) \div 10000

\* heatIndex in hundredths of a degree of the configured unit; 0 when it is
\* not calculated
heatIndex(weather, cfg) ==
    LET tF == tempF(weather.Temp, cfg)
    IN  IF tF > 800 /\ weather.Humidity > 40
        THEN IF cfg.Units = "metric"
             THEN ((rothfusz(tF, weather.Humidity) - 3200) * 5) \div 9
             ELSE rothfusz(tF, weather.Humidity)
        ELSE 0

\* fmt.Sprintf("%.1f mm", x) and the like, of x in tenths
Tenths(x, unit) == <<x, unit>>

\* sunrise, sunset and day_length: the strings stay empty and dayLength 0
\* when the snapshot lacks sunrise or sunset
sunFields(weather) ==
    IF weather.Sunrise > 0 /\ weather.Sunset > 0
    THEN [sunrise |-> Format304PM(weather.Sunrise + weather.Timezone),
          sunset |-> Format304PM(weather.Sunset + weather.Timezone),
          day_length |-> Tenths(((weather.Sunset - weather.Sunrise) + 180) \div 360, "hours")]
    ELSE [sunrise |-> <<>>, sunset |-> <<>>, day_length |-> Tenths(0, "hours")]

\* the air-quality entries with the secondary provider's value put on the
\* U.S. scale
aqiFieldsOneScale(weather) ==
    IF weather.IQAirData.AQI > 0
    THEN [aqi |-> weather.IQAirData.AQI,
          aqi_description |-> weather.IQAirData.Category,
          aqi_source |-> "IQAir"]
    ELSE IF Len(weather.AQIList) > 0
    THEN [aqi |-> weather.AQIList[1],
          aqi_description |-> <<iqairCategory(weather.AQIList[1])>>,
          aqi_source |-> "OpenWeatherMap"]
    ELSE <<>>

\* the air-quality entries: IQAir data first, then the first entry of the
\* OpenWeatherMap list, else none
aqiFields(weather) ==
    IF weather.IQAirData.AQI > 0
    THEN [aqi |-> weather.IQAirData.AQI,
          aqi_description |-> weather.IQAirData.Category,
          aqi_source |-> "IQAir"]
    ELSE IF Len(weather.AQIList) > 0
    THEN [aqi |-> weather.AQIList[1],
          aqi_description |-> getAQIDescription(weather.AQIList[1]),
          aqi_source |-> "OpenWeatherMap"]
    ELSE <<>>

\* the entries added only when their value is positive
positiveFields(weather, cfg) ==
    LET add(m, key, x, unit) == IF x > 0 THEN Merge(m, [k \in {key} |-> Tenths(x, unit)]) ELSE m
        hi == heatIndex(weather, cfg)
    IN  add(add(add(add(add(<<>>,
            "heat_index", IF hi > 0 THEN (hi + 5) \div 10 ELSE 0, getTempUnit(cfg)),
            "rain_1h", weather.Rain.OneHour, "mm"),
            "rain_3h", weather.Rain.ThreeHours, "mm"),
            "snow_1h", weather.Snow.OneHour, "mm"),
            "snow_3h", weather.Snow.ThreeHours, "mm")

\* prepareWeatherData(weather): the map sent to the browser (the entries the
\* properties read); rain and snow are in tenths of a millimetre
prepareWeatherData(weather, cfg) ==
    LET wall == weather.Dt + weather.Timezone
        data == [city |-> weather.Name,
                 country |-> weather.Country,
                 time_12h |-> Format304PM(wall),
                 time_24h |-> Format1504(wall),
                 hour_of_day |-> localHour(weather),
                 is_daytime_or_night |-> IF isDaytime(weather) THEN "DAYTIME" ELSE "NIGHTTIME",
                 condition |-> IF Len(weather.Weather) > 0 THEN weather.Weather[1].Main ELSE "",
                 description |-> IF Len(weather.Weather) > 0 THEN weather.Weather[1].Description ELSE "",
                 weather_id |-> IF Len(weather.Weather) > 0 THEN weather.Weather[1].ID ELSE 0,
                 humidity |-> weather.Humidity,
                 wind_direction |-> weather.WindDeg,
                 wind_direction_text |-> windDirectionText(weather.WindDeg),
                 moon_phase |-> moonPhase(weather.Dt),
                 units |-> cfg.Units,
                 is_daytime |-> isDaytime(weather),
                 time |-> Format304PM(wall)]
    IN  Merge(Merge(Merge(data, sunFields(weather)), aqiFields(weather)),
              positiveFields(weather, cfg))

(***************************************************************************)
(* Program "data": one call of prepareWeatherData() on a fetched snapshot  *)
(***************************************************************************)
MaxAqi == 320
MaxDays == 30

NoPrecipitation == [OneHour |-> 0, ThreeHours |-> 0]

\* the fields of WeatherResponse that fetchWeather() leaves at their zero
\* values: Sys.Sunrise, Sys.Sunset, Rain and Snow
NoSys ==
    [Sunrise |-> 0, Sunset |-> 0, Rain |-> NoPrecipitation, Snow |-> NoPrecipitation]

\* the snapshot w with the fields sys
withSys(w, sys) ==
    [w EXCEPT !.Sunrise = sys.Sunrise, !.Sunset = sys.Sunset,
              !.Rain = sys.Rain, !.Snow = sys.Snow]

Noon == BaseWall + 12 * 3600
ElySunrise == BaseWall - ElyTz + 7 * 3600 + 1800
ElySunset == BaseWall - ElyTz + 16 * 3600 + 900

At(wall) == [layout |-> "2006-01-02T15:04", wall |-> wall]

DataBase ==
    [geo |-> [kind |-> "ok", lat |-> 523993, lon |-> 2622],
     wx |-> [kind |-> "ok", cur |-> [Reading(1) EXCEPT !.Time = At(Noon)],
             TimezoneOffset |-> ElyTz],
     iq |-> Unreachable, owm |-> Unreachable, now |-> BaseWall, sys |-> NoSys]

\* the primary provider's answers, over the whole scale
DataIqAnswers ==
    {[kind |-> "ok", aqius |-> v, list |-> <<>>] : v \in 0..MaxAqi}
    \cup {[kind |-> f, aqius |-> 0, list |-> <<>>] : f \in IqFailures}

\* the secondary provider's answers: its index is 1..5
DataOwmAnswers ==
    {[kind |-> "ok", aqius |-> 0, list |-> l] :
        l \in {<<>>} \cup {<<v>> : v \in 1..5} \cup {<<4, 1>>}}
    \cup {[kind |-> f, aqius |-> 0, list |-> <<>>] : f \in OwmFailures}

Temperatures == {10, 26, 27, 30, 55, 80, 81, 95, 120}
Humidities == {0, 40, 41, 50, 90, 100}

\* the instants of one day: every hour, its last second, and the instants
\* around sunrise and sunset
DayWalls ==
    {BaseWall + h * 3600 + o : h \in 0..23, o \in {0, 3599}}
    \cup {t + ElyTz + o : t \in {ElySunrise, ElySunset}, o \in {0 - 1, 0}}

SunAnswers ==
    {[NoSys EXCEPT !.Sunrise = r, !.Sunset = t] : r \in {0, ElySunrise}, t \in {0, ElySunset}}

PrecipitationAnswers ==
    {[NoSys EXCEPT !.Rain = [OneHour |-> a, ThreeHours |-> b],
                   !.Snow = [OneHour |-> c, ThreeHours |-> d]] :
        a \in {0, 3}, b \in {0, 12}, c \in {0, 7}, d \in {0, 25}}

\* the layouts of the provider's time string: the accepted ones and another
TimeLayouts == {timeFormats[i] : i \in 1..Len(timeFormats)} \cup {"02 Jan 06 15:04"}

\* what the services answer to the fetch before the call: one answer varies
\* at a time
DataInputs ==
    {[DataBase EXCEPT !.iq = a] : a \in DataIqAnswers}
    \cup {[DataBase EXCEPT !.owm = a] : a \in DataOwmAnswers}
    \cup {[DataBase EXCEPT !.wx.cur.WindDirection = d] : d \in 0..360}
    \cup {[DataBase EXCEPT !.wx.cur.WeatherCode = c] : c \in 0..99}
    \cup {[DataBase EXCEPT !.wx.cur.Temperature = t, !.wx.cur.RelativeHumidity = h] :
            t \in Temperatures, h \in Humidities}
    \cup {[DataBase EXCEPT !.wx.cur.Time = At(Noon + d * 86400 + h * 3600)] :
            d \in 0..MaxDays, h \in {0 - 12, 0 - 6, 0, 6}}
    \cup {[DataBase EXCEPT !.wx.cur.Time = At(w), !.wx.TimezoneOffset = z] :
            w \in DayWalls, z \in {ElyTz, 0 - 5 * 3600}}
    \cup {[DataBase EXCEPT !.wx.cur.Time = At(w), !.sys = y] : w \in DayWalls, y \in SunAnswers}
    \cup {[DataBase EXCEPT !.sys = y] : y \in PrecipitationAnswers}
    \cup {[DataBase EXCEPT !.wx.cur.Time = [layout |-> l, wall |-> w], !.wx.TimezoneOffset = z] :
            l \in TimeLayouts, w \in {BaseWall + 60, Noon + 34 * 60, Noon + 43140},
            z \in {0, 0 - 5 * 3600, 19800}}

DataConfigs ==
    [City : {Ely}, CountryCode : {"GB"}, Units : {"metric", "imperial"},
     IQAirAPIKey : {<<>>, <<"k", "e", "y", "1", "2">>},
     LLMProvider : {"Anthropic"}]

InitData ==
    /\ prog = "data"
    /\ config \in DataConfigs
    /\ AgentUnused
    /\ Idle

\* agent.prepareWeatherData(weather) on the snapshot of a successful fetch,
\* as update() calls it
prepareCall(in) ==
    /\ prog = "data"
    /\ call = NoCall
    /\ fetchWeather(config, in).status = "ok"
    /\ LET weather == withSys(fetchWeather(config, in).weather, in.sys)
       IN  /\ call' = [fn |-> "prepareWeatherData", in |-> in, weather |-> weather]
           /\ ret' = prepareWeatherData(weather, config)
    /\ UNCHANGED <<prog, config, env, weatherHistory, lastMessage, pushLog, lastTick,
                   latestWeather, mu, updater, handlers, completed>>

NextData == \E in \in DataInputs : prepareCall(in)

SpecData == InitData /\ [][NextData]_vars

\* a call of prepareWeatherData has returned
Prepared == prog = "data" /\ call # NoCall

(***************************************************************************)
(* Program "updater": the server with the background updater goroutine     *)
(***************************************************************************)
\* getEnv(key, defaultValue): env maps the variables whose value is not empty
getEnv(key, defaultValue) ==
    IF key \in DOMAIN env THEN env[key] ELSE defaultValue

\* os.Setenv(key, value) on the environment e
Setenv(e, key, value) ==
    [k \in DOMAIN e \cup {key} |-> IF k = key THEN value ELSE e[k]]

\* sync.RWMutex: Lock() returns once no reader and no writer holds the lock
CanLockIgnoringReaders(m) == ~m.writer

CanLock(m) == ~m.writer /\ m.readers = 0

\* sync.RWMutex: RLock() returns once no writer holds the lock
CanRLock(m) == ~m.writer

UpdaterStart ==
    [pc |-> "fetch", n |-> 0, failedFetches |-> 0, weather |-> ZeroWeather,
     message |-> <<>>, weatherData |-> <<>>, timeStr |-> 0]

NoRead == [pc |-> "idle", kind |-> "none", at |-> 0, obs |-> EmptyStore]

UpdaterConfigs ==
    [City : {Ely}, CountryCode : {"GB"}, Units : {"metric"},
     IQAirAPIKey : {<<>>}, LLMProvider : {"Anthropic"}]

InitUpdater ==
    /\ prog = "updater"
    /\ config \in UpdaterConfigs
    /\ NewWeatherAgent
    /\ call = NoCall
    /\ ret = NoCall
    /\ env = <<>>
    /\ latestWeather = EmptyStore
    /\ mu = [writer |-> FALSE, readers |-> 0]
    /\ updater = UpdaterStart
    /\ handlers = [r \in 1..NumReaders |-> NoRead]
    /\ completed = {}

\* the language model's answers to the servers: a message or an error
OnDemandReplies == {r \in LLMReplies : r.kind = "api_error" \/ r.text = <<"a">>}

\* the answers one iteration of the goroutine can get
UpdaterInputs ==
    [geo : {g \in GeoAnswers : g.kind \in {"ok", "geocode_no_locations"}},
     wx : WxAnswers(updater.n + 1),
     iq : {Unreachable}, owm : {Unreachable}, now : {BaseWall}]

\* the goroutine: weather, err := agent.fetchWeather(); on an error it sleeps
\* and starts the next iteration
updaterFetch(in) ==
    /\ prog = "updater"
    /\ updater.pc = "fetch"
    /\ updater.n < MaxIterations
    /\ LET f == fetchWeatherBase(config, in)
       IN  IF f.status # "ok"
           THEN updater' = [updater EXCEPT !.n = @ + 1, !.failedFetches = @ + 1]
           ELSE updater' = [updater EXCEPT !.pc = "generate", !.weather = f.weather]
    /\ UNCHANGED <<prog, config, env, weatherHistory, lastMessage, pushLog, lastTick,
                   call, ret, latestWeather, mu, handlers, completed>>

\* the goroutine: history context, message, weatherData and timeStr; on an
\* error it sleeps and starts the next iteration
updaterGenerate(reply) ==
    /\ prog = "updater"
    /\ updater.pc = "generate"
    /\ LET historyContext == generateHistoryContext(weatherHistory, config)
           m == generateLLMMessage(config, updater.weather, historyContext, reply)
       IN  IF m.err
           THEN updater' = [updater EXCEPT !.pc = "fetch", !.n = @ + 1]
           ELSE updater' = [updater EXCEPT !.pc = "lock",
                                !.message = m.text,
                                !.weatherData = prepareWeatherData(updater.weather, config),
                                !.timeStr = updater.n + 1]
    /\ UNCHANGED <<prog, config, env, weatherHistory, lastMessage, pushLog, lastTick,
                   call, ret, latestWeather, mu, handlers, completed>>

\* the goroutine: latestWeather.Lock()
updaterLock ==
    /\ prog = "updater"
    /\ updater.pc = "lock"
    /\ CanLock(mu)
    /\ mu' = [mu EXCEPT !.writer = TRUE]
    /\ updater' = [updater EXCEPT !.pc = "Message"]
    /\ UNCHANGED <<prog, config, env, weatherHistory, lastMessage, pushLog, lastTick,
                   call, ret, latestWeather, handlers, completed>>

\* the goroutine: the five assignments to latestWeather, one at a time
updaterStore ==
    /\ prog = "updater"
    /\ updater.pc \in {"Message", "City", "Country", "Timestamp", "WeatherData"}
    /\ \/ /\ updater.pc = "Message"
          /\ latestWeather' = [latestWeather EXCEPT !.Message = updater.message]
          /\ updater' = [updater EXCEPT !.pc = "City"]
       \/ /\ updater.pc = "City"
          /\ latestWeather' = [latestWeather EXCEPT !.City = config.City]
          /\ updater' = [updater EXCEPT !.pc = "Country"]
       \/ /\ updater.pc = "Country"
          /\ latestWeather' = [latestWeather EXCEPT !.Country = config.CountryCode]
          /\ updater' = [updater EXCEPT !.pc = "Timestamp"]
       \/ /\ updater.pc = "Timestamp"
          /\ latestWeather' = [latestWeather EXCEPT !.Timestamp = updater.timeStr]
          /\ updater' = [updater EXCEPT !.pc = "WeatherData"]
       \/ /\ updater.pc = "WeatherData"
          /\ latestWeather' = [latestWeather EXCEPT !.WeatherData = updater.weatherData]
          /\ updater' = [updater EXCEPT !.pc = "unlock"]
    /\ UNCHANGED <<prog, config, env, weatherHistory, lastMessage, pushLog, lastTick,
                   call, ret, mu, handlers, completed>>

\* the goroutine: latestWeather.Unlock(), then the sleep before the next
\* iteration
updaterUnlock ==
    /\ prog = "updater"
    /\ updater.pc = "unlock"
    /\ mu' = [mu EXCEPT !.writer = FALSE]
    /\ updater' = [updater EXCEPT !.pc = "fetch", !.n = @ + 1]
    /\ completed' = completed \cup {latestWeather}
    /\ UNCHANGED <<prog, config, env, weatherHistory, lastMessage, pushLog, lastTick,
                   call, ret, latestWeather, handlers>>

\* the fields a handler reads from latestWeather, in the order it reads them:
\* "/" fills the template data, /api/weather logs WeatherData and encodes
\* the JSON object
ReadOrder(kind) ==
    IF kind = "index"
    THEN <<"City", "Country", "Message", "Timestamp">>
    ELSE <<"WeatherData", "City", "Country", "Message", "Timestamp", "WeatherData">>

\* a request for "/" (kind "index") or for /api/weather (kind "api") arrives
readerStart(r, kind) ==
    /\ prog = "updater"
    /\ handlers[r].pc = "idle"
    /\ handlers' = [handlers EXCEPT ![r] = [pc |-> "rlock", kind |-> kind, at |-> 0, obs |-> EmptyStore]]
    /\ UNCHANGED <<prog, config, env, weatherHistory, lastMessage, pushLog, lastTick,
                   call, ret, latestWeather, mu, updater, completed>>

\* the handler: latestWeather.RLock()
readerRLock(r) ==
    /\ prog = "updater"
    /\ handlers[r].pc = "rlock"
    /\ CanRLock(mu)
    /\ mu' = [mu EXCEPT !.readers = @ + 1]
    /\ handlers' = [handlers EXCEPT ![r].pc = "read", ![r].at = 1]
    /\ UNCHANGED <<prog, config, env, weatherHistory, lastMessage, pushLog, lastTick,
                   call, ret, latestWeather, updater, completed>>

\* the handler reads the next field
readerRead(r) ==
    /\ prog = "updater"
    /\ handlers[r].pc = "read"
    /\ LET order == ReadOrder(handlers[r].kind)
           i == handlers[r].at
           field == order[i]
       IN  handlers' = [handlers EXCEPT
                           ![r].obs = [@ EXCEPT ![field] = latestWeather[field]],
                           ![r].pc = IF i = Len(order) THEN "runlock" ELSE "read",
                           ![r].at = IF i = Len(order) THEN 0 ELSE i + 1]
    /\ UNCHANGED <<prog, config, env, weatherHistory, lastMessage, pushLog, lastTick,
                   call, ret, latestWeather, mu, updater, completed>>

\* the handler returns: the deferred latestWeather.RUnlock()
readerRUnlock(r) ==
    /\ prog = "updater"
    /\ handlers[r].pc = "runlock"
    /\ mu' = [mu EXCEPT !.readers = @ - 1]
    /\ handlers' = [handlers EXCEPT ![r].pc = "idle"]
    /\ UNCHANGED <<prog, config, env, weatherHistory, lastMessage, pushLog, lastTick,
                   call, ret, latestWeather, updater, completed>>

\* POST /api/update-city of the server with the updater goroutine: an empty
\* city is answered "City is required"
updaterUpdateCity(city, country) ==
    /\ prog = "updater"
    /\ env' = IF city = <<>>
              THEN env
              ELSE IF country # ""
              THEN Setenv(Setenv(env, "WEATHER_CITY", city), "WEATHER_COUNTRY", country)
              ELSE Setenv(env, "WEATHER_CITY", city)
    /\ UNCHANGED <<prog, config, weatherHistory, lastMessage, pushLog, lastTick, call, ret,
                   latestWeather, mu, updater, handlers, completed>>

NextUpdater ==
    \/ \E city \in {Rome, <<>>}, country \in {"IT"} : updaterUpdateCity(city, country)
    \/ \E in \in UpdaterInputs : updaterFetch(in)
    \/ \E reply \in OnDemandReplies : updaterGenerate(reply)
    \/ updaterLock
    \/ updaterStore
    \/ updaterUnlock
    \/ \E r \in 1..NumReaders, kind \in {"index", "api"} : readerStart(r, kind)
    \/ \E r \in 1..NumReaders : readerRLock(r)
    \/ \E r \in 1..NumReaders : readerRead(r)
    \/ \E r \in 1..NumReaders : readerRUnlock(r)

SpecUpdater == InitUpdater /\ [][NextUpdater]_vars

(***************************************************************************)
(* Program "ondemand": the server that runs the pipeline per request       *)
(***************************************************************************)
\* main()'s config := loadConfig(), the defaults of the handlers' getEnv calls
OnDemandConfigs ==
    [City : {Ely}, CountryCode : {"GB"}, Units : {"metric"},
     IQAirAPIKey : {<<>>}, LLMProvider : {"Anthropic"}]

NoResponse == [status |-> 0, city |-> <<>>, country |-> "", message |-> <<>>, data |-> <<>>]

NoRequest ==
    [pc |-> "idle", kind |-> "none", lat |-> 0, lon |-> 0, city |-> <<>>, country |-> "",
     geo |-> [kind |-> "none", lat |-> 0, lon |-> 0], weather |-> ZeroWeather,
     read |-> <<>>, resp |-> NoResponse]

InitOnDemand ==
    /\ prog = "ondemand"
    /\ config \in OnDemandConfigs
    /\ NewWeatherAgent
    /\ call = NoCall
    /\ ret = NoCall
    /\ env = <<>>
    /\ latestWeather = EmptyStore
    /\ mu = [writer |-> FALSE, readers |-> 0]
    /\ updater = [pc |-> "off", received |-> 0, loaded |-> config]
    /\ handlers = [h \in 1..NumHandlers |-> NoRequest]
    /\ completed = {}

\* the coordinates a browser sends with /api/weather?lat=..&lon=..
RequestPoints == {<<418781, -873299>>, <<-123456, -9876>>}

\* the answers of the services to an on-demand request
OnDemandGeoAnswers == {g \in GeoAnswers : g.kind \in {"ok", "geocode_no_locations"}}

OnDemandWxAnswers ==
    {w \in WxAnswers(Len(pushLog) + 1) : w.kind \in {"ok", "weather_api_error"}}

OnDemandPlaces ==
    [a : {x \in BdcAnswers : x.kind = "bdc_api_error" \/ x.City = Ely},
     b : {x \in NominatimAnswers : x.kind = "nominatim_api_error"}]

\* /api/weather without coordinates: generateWeatherUpdate() up to the
\* geocoding request of fetchWeather; agent.config is set from the
\* environment
apiWeather(h) ==
    /\ prog = "ondemand"
    /\ handlers[h].pc = "idle"
    /\ updater.received < MaxRequests
    /\ LET currentCity == getEnv("WEATHER_CITY", updater.loaded.City)
           currentCountry == getEnv("WEATHER_COUNTRY", updater.loaded.CountryCode)
       IN  /\ config' = [config EXCEPT !.City = currentCity, !.CountryCode = currentCountry]
           /\ handlers' = [handlers EXCEPT ![h] =
                   [NoRequest EXCEPT !.pc = "geocode", !.kind = "city",
                                     !.city = currentCity, !.country = currentCountry]]
    /\ updater' = [updater EXCEPT !.received = @ + 1]
    /\ UNCHANGED <<prog, env, weatherHistory, lastMessage, pushLog, lastTick, call, ret,
                   latestWeather, mu, completed>>

\* /api/weather?lat=..&lon=..: generateWeatherUpdateByCoordinates(lat, lon) up
\* to the weather request
apiWeatherByCoordinates(h, lat, lon) ==
    /\ prog = "ondemand"
    /\ handlers[h].pc = "idle"
    /\ updater.received < MaxRequests
    /\ handlers' = [handlers EXCEPT ![h] =
            [NoRequest EXCEPT !.pc = "weather", !.kind = "coordinates",
                              !.lat = lat, !.lon = lon]]
    /\ updater' = [updater EXCEPT !.received = @ + 1]
    /\ UNCHANGED <<prog, config, env, weatherHistory, lastMessage, pushLog, lastTick,
                   call, ret, latestWeather, mu, completed>>

\* fetchWeather: the geocoding service answers
onDemandGeocode(h, geo) ==
    /\ prog = "ondemand"
    /\ handlers[h].pc = "geocode"
    /\ handlers' = [handlers EXCEPT ![h].geo = geo, ![h].pc = "weather"]
    /\ UNCHANGED <<prog, config, env, weatherHistory, lastMessage, pushLog, lastTick,
                   call, ret, latestWeather, mu, updater, completed>>

\* the rest of fetchWeather / fetchWeatherByCoordinates: the weather provider
\* and the services called after it answer; an error is answered with
\* "Unable to fetch weather data", status 500
onDemandFetch(h, in) ==
    /\ prog = "ondemand"
    /\ handlers[h].pc = "weather"
    /\ LET f == IF handlers[h].kind = "city"
                THEN fetchWeather(config, [geo |-> handlers[h].geo, wx |-> in.wx,
                                           iq |-> Unreachable, owm |-> Unreachable,
                                           now |-> BaseWall])
                ELSE fetchWeatherByCoordinates(config, handlers[h].lat, handlers[h].lon,
                                               [wx |-> in.wx, a |-> in.a, b |-> in.b,
                                                now |-> BaseWall])
       IN  IF f.status # "ok"
           THEN handlers' = [handlers EXCEPT ![h].pc = "idle",
                                 ![h].resp = [NoResponse EXCEPT !.status = 500]]
           ELSE handlers' = [handlers EXCEPT ![h].pc = "append", ![h].weather = f.weather]
    /\ UNCHANGED <<prog, config, env, weatherHistory, lastMessage, pushLog, lastTick,
                   call, ret, latestWeather, mu, updater, completed>>

\* agent.weatherHistory = append(agent.weatherHistory, weather): the handler
\* reads the slice; no lock orders it with the other handlers' writes
onDemandAppendRead(h) ==
    /\ prog = "ondemand"
    /\ handlers[h].pc = "append"
    /\ handlers' = [handlers EXCEPT ![h].read = weatherHistory, ![h].pc = "store"]
    /\ UNCHANGED <<prog, config, env, weatherHistory, lastMessage, pushLog, lastTick,
                   call, ret, latestWeather, mu, updater, completed>>

\* the handler stores the slice it read with its snapshot appended, trimmed
\* to 24
onDemandAppend(h) ==
    /\ prog = "ondemand"
    /\ handlers[h].pc = "store"
    /\ weatherHistory' = Push(handlers[h].read, handlers[h].weather)
    /\ pushLog' = Append(pushLog, handlers[h].weather)
    /\ handlers' = [handlers EXCEPT ![h].pc = "generate", ![h].read = <<>>]
    /\ UNCHANGED <<prog, config, env, lastMessage, lastTick, call, ret,
                   latestWeather, mu, updater, completed>>

\* generateHistoryContext, generateLLMMessage, prepareWeatherData and the
\* response: the JSON object, or status 500 when the language model failed
onDemandGenerate(h, reply) ==
    /\ prog = "ondemand"
    /\ handlers[h].pc = "generate"
    /\ LET weather == handlers[h].weather
           historyContext == generateHistoryContext(weatherHistory, config)
           m == generateLLMMessage(config, weather, historyContext, reply)
           byCity == handlers[h].kind = "city"
       IN  handlers' = [handlers EXCEPT ![h].pc = "idle", ![h].resp =
               IF m.err
               THEN [NoResponse EXCEPT !.status = 500]
               ELSE [status |-> 200,
                     city |-> IF byCity THEN handlers[h].city ELSE weather.Name,
                     country |-> IF byCity THEN handlers[h].country ELSE weather.Country,
                     message |-> m.text,
                     data |-> prepareWeatherData(weather, config)]]
    /\ UNCHANGED <<prog, config, env, weatherHistory, lastMessage, pushLog, lastTick,
                   call, ret, latestWeather, mu, updater, completed>>

\* POST /api/update-city: an empty city is answered "City is required"
updateCity(city, country) ==
    /\ prog = "ondemand"
    /\ updater.received < MaxRequests
    /\ env' = IF city = <<>>
              THEN env
              ELSE IF country # ""
              THEN Setenv(Setenv(env, "WEATHER_CITY", city), "WEATHER_COUNTRY", country)
              ELSE Setenv(env, "WEATHER_CITY", city)
    /\ updater' = [updater EXCEPT !.received = @ + 1]
    /\ UNCHANGED <<prog, config, weatherHistory, lastMessage, pushLog, lastTick, call, ret,
                   latestWeather, mu, handlers, completed>>

NextOnDemand ==
    \/ \E h \in 1..NumHandlers : apiWeather(h)
    \/ \E h \in 1..NumHandlers, p \in RequestPoints : apiWeatherByCoordinates(h, p[1], p[2])
    \/ \E h \in 1..NumHandlers, geo \in OnDemandGeoAnswers : onDemandGeocode(h, geo)
    \/ \E h \in 1..NumHandlers, wx \in OnDemandWxAnswers, place \in OnDemandPlaces :
          onDemandFetch(h, [wx |-> wx, a |-> place.a, b |-> place.b])
    \/ \E h \in 1..NumHandlers : onDemandAppendRead(h)
    \/ \E h \in 1..NumHandlers : onDemandAppend(h)
    \/ \E h \in 1..NumHandlers, reply \in OnDemandReplies : onDemandGenerate(h, reply)
    \/ \E city \in {Rome, <<>>}, country \in {"IT", ""} : updateCity(city, country)

SpecOnDemand == InitOnDemand /\ [][NextOnDemand]_vars

(***************************************************************************)
(* The three programs that run the pipeline                                *)
(***************************************************************************)
InitAll == Init \/ InitUpdater \/ InitOnDemand

NextAll ==
    \/ prog = "agent" /\ Len(pushLog) < MaxTicks /\ Next
    \/ prog = "updater" /\ NextUpdater
    \/ prog = "ondemand" /\ NextOnDemand

SpecAll == InitAll /\ [][NextAll]_vars

\* the requests whose pipeline execution is in progress
InProgress == {h \in DOMAIN handlers : handlers[h].pc # "idle"}

(***************************************************************************)
(* Properties                                                              *)
(***************************************************************************)

\* C1: whenever a tick of update() stores a message in lastMessage, the
\* stored text, whitespace-trimmed, differs from the whitespace-trimmed text
\* lastMessage held before that tick.
C1_StoredDiffersFromPrevious ==
    (prog = "agent" /\ lastTick.outcome = "stored")
        => TrimSpace(lastMessage) # TrimSpace(lastTick.before)

\* a tick whose first text repeated a non-empty previous message and whose
\* retry did not help
C1_Witness ==
    /\ prog = "agent"
    /\ lastTick.outcome = "stored"
    /\ lastTick.path = "stamp"
    /\ TrimSpace(lastTick.before) # <<>>
    /\ TrimSpace(lastTick.first) = TrimSpace(lastTick.before)

\* the k most recent entries of a log
LastN(log, k) == SubSeq(log, Len(log) - k + 1, Len(log))

Min(a, b) == IF a < b THEN a ELSE b

C10_ContextIsPreviousSnapshot ==
    (prog = "agent" /\ lastTick.outcome \in {"stored", "llm_failed"}) =>
        IF Len(weatherHistory) < 2
        THEN lastTick.context = <<>>
        ELSE LET prev == pushLog[Len(pushLog) - 1]
                 ctx == lastTick.context
             IN  /\ Len(ctx) = 5
                 /\ ctx[1].strs = Format1504(prev.Dt + prev.Timezone)
                 /\ ctx[2].strs = <<prev.Weather[1].Main, prev.Weather[1].Description>>
                 /\ ctx[3].nums = <<prev.Temp, prev.FeelsLike>>
                 /\ ctx[4].nums = <<prev.Humidity>>
                 /\ ctx[5].nums = <<prev.WindSpeed>>

\* a context built after the buffer has evicted
C10_Witness ==
    /\ prog = "agent"
    /\ Len(pushLog) > 24 + 1
    /\ lastTick.outcome = "stored"
    /\ lastTick.context # <<>>

\* C5: whenever the primary air-quality provider is not configured, or is
\* configured and its call fails, the secondary provider is called in the
\* same tick.
C5_SecondaryCalledWhenPrimaryUnavailable ==
    (/\ prog = "fetch"
     /\ call.fn = "fetchWeather"
     /\ \/ config.IQAirAPIKey = <<>> /\ call.in.wx.kind = "ok"
        \/ Called(ret, "iqair") /\ call.in.iq.kind # "ok")
        => Called(ret, "owm")

\* C6: no outcome of the air-quality calls makes fetchWeather return an error
\* or changes the weather fields already placed in the snapshot; when the
\* provider called gave no reading the snapshot has no AQI reading.
C6_AirQualityNeverFailsSnapshot ==
    (/\ prog = "fetch"
     /\ call.fn = "fetchWeather"
     /\ (Called(ret, "iqair") \/ Called(ret, "owm"))) =>
        LET cur == call.in.wx.cur
            w == ret.weather
            noReading == \/ Called(ret, "iqair") /\ call.in.iq.kind # "ok"
                         \/ Called(ret, "owm") /\ call.in.owm.kind # "ok"
                         \/ Called(ret, "owm") /\ call.in.owm.list = <<>>
        IN  /\ ret.status = "ok"
            /\ ret.err = ""
            /\ Len(w.Weather) = 1
            /\ w.Weather[1].ID = cur.WeatherCode
            /\ w.Temp = cur.Temperature
            /\ w.FeelsLike = cur.ApparentTemp
            /\ w.Humidity = cur.RelativeHumidity
            /\ w.WindSpeed = cur.WindSpeed
            /\ w.WindDeg = cur.WindDirection
            /\ w.Clouds = cur.CloudCover
            /\ w.Name = config.City
            /\ w.Country = config.CountryCode
            /\ w.Timezone = call.in.wx.TimezoneOffset
            /\ w.Dt = ParseLocalTime(cur.Time, call.in.wx.TimezoneOffset, call.in.now)
            /\ noReading => (w.IQAirData.AQI = 0 /\ w.AQIList = <<>>)

\* the primary provider was called and answered with an HTTP error
C6_Witness ==
    /\ prog = "fetch"
    /\ call.fn = "fetchWeather"
    /\ Called(ret, "iqair")
    /\ call.in.iq.kind = "iqair_api_error"
    /\ ret.status = "ok"
    /\ ret.weather.Temp = call.in.wx.cur.Temperature

\* C8: when forward geocoding fails for any reason, fetchWeather goes on with
\* the coordinates 51.5074, -0.1278 and never returns the geocoding error.
C8_GeocodingFailureFallsBackToLondon ==
    (/\ prog = "fetch"
     /\ call.fn = "fetchWeather"
     /\ call.in.geo.kind # "ok") =>
        /\ ret.lat = 515074
        /\ ret.lon = -1278
        /\ Called(ret, "weather")
        /\ ret.err \notin GeoFailures
        /\ ret.err # "" => ret.err = call.in.wx.kind

\* geocoding found no location and the call still returned a snapshot
C8_Witness ==
    /\ prog = "fetch"
    /\ call.fn = "fetchWeather"
    /\ call.in.geo.kind = "geocode_no_locations"
    /\ ret.status = "ok"
    /\ ret.lat = 515074

\* a name a source may be taken at: not empty and not a placeholder
Acceptable(name) == name # <<>> /\ ~Contains(name, Location)

\* C7: reverseGeocode consults BigDataCloud, Nominatim and the city table in
\* this order, the next one only if the previous one returned an empty or a
\* placeholder name; it returns the first acceptable name, and a name
\* derived from the coordinates with country "Unknown" if there is none.
C7_ReverseGeocodeFallbackOrder ==
    (prog = "geo" /\ call.fn = "reverseGeocode") =>
        LET A == tryBigDataCloudGeocode(call.a)
            B == tryNominatimGeocode(call.b)
            near == {i \in 1..Len(cities) : Within(call.lat, call.lon, cities[i])}
        IN  IF Acceptable(A.name)
            THEN /\ ret.consulted = <<"BigDataCloud">>
                 /\ ret.name = A.name /\ ret.country = A.country
            ELSE IF Acceptable(B.name)
            THEN /\ ret.consulted = <<"BigDataCloud", "Nominatim">>
                 /\ ret.name = B.name /\ ret.country = B.country
            ELSE /\ ret.consulted = <<"BigDataCloud", "Nominatim", "table">>
                 /\ IF near # {}
                    THEN \E i \in near : /\ ret.name = cities[i].name
                                         /\ ret.country = cities[i].country
                                         /\ \A j \in near : i <= j
                    ELSE /\ SubSeq(ret.name, 1, 9) = Location \o <<" ">>
                         /\ Contains(ret.name, Format2f(call.lat))
                         /\ Contains(ret.name, Format2f(call.lon))
                         /\ ret.country = "Unknown"

\* both services failed and the coordinates are near no city of the table
C7_Witness ==
    /\ prog = "geo"
    /\ call.fn = "reverseGeocode"
    /\ call.a.kind = "bdc_api_error"
    /\ call.b.kind = "nominatim_request_failed"
    /\ ret.country = "Unknown"
    /\ ret.name = Location \o <<" ", "-", "1", "2", ".", "3", "5", ",", "-", "0", ".", "9", "9">>

\* C3: a reader of the lock-protected latestWeather store observes Message,
\* City, Country, Timestamp and WeatherData that all come from one completed
\* update, or all from the initial empty state.
C3_ReadersSeeOneUpdate ==
    prog = "updater" =>
        \A r \in 1..NumReaders :
            (handlers[r].pc = "runlock" \/ (handlers[r].pc = "idle" /\ handlers[r].kind # "none"))
                => \E u \in completed \cup {EmptyStore} :
                      \A i \in 1..Len(ReadOrder(handlers[r].kind)) :
                          LET field == ReadOrder(handlers[r].kind)[i]
                          IN  handlers[r].obs[field] = u[field]

\* a reader that started while the second update was being written has read
\* the five fields of the second update
C3_Witness ==
    /\ prog = "updater"
    /\ Cardinality(completed) = 2
    /\ \E r \in 1..NumReaders :
          /\ handlers[r].pc = "runlock"
          /\ handlers[r].kind = "api"
          /\ handlers[r].obs.Timestamp = 2
          /\ handlers[r].obs = latestWeather

\* C2: at most one pipeline execution (fetch, history push, generate, dedup,
\* store) is in progress at any moment, also when several /api/weather
\* requests arrive concurrently.
C2_AtMostOneExecution ==
    prog = "ondemand" => Cardinality(InProgress) <= 1

\* a tick of the agent, an iteration of the updater goroutine or an
\* on-demand request ends on fetchWeather's error
FetchFailedStep ==
    \/ prog = "agent" /\ lastTick'.outcome = "fetch_failed"
    \/ /\ prog = "updater"
       /\ updater.pc = "fetch"
       /\ updater'.failedFetches = updater.failedFetches + 1
    \/ /\ prog = "ondemand"
       /\ \E h \in DOMAIN handlers :
             handlers[h].pc = "weather" /\ handlers'[h].pc = "idle"

\* C4: a failed weather fetch (a tick of the agent, an iteration of the
\* updater goroutine or an on-demand request) leaves weatherHistory,
\* lastMessage and latestWeather unchanged, and the program goes on to its
\* next tick, iteration or request.
C4_FailedFetchChangesNothing ==
    [][FetchFailedStep =>
          /\ weatherHistory' = weatherHistory
          /\ lastMessage' = lastMessage
          /\ latestWeather' = latestWeather
          /\ prog' = prog
          /\ prog = "updater" => updater'.pc = "fetch"]_vars

\* the updater's first iteration failed to fetch and its second one has
\* published
C4_Witness ==
    /\ prog = "updater"
    /\ updater.failedFetches = 1
    /\ updater.n = 2
    /\ latestWeather.Timestamp = 2
    /\ latestWeather.Message # <<>>

\* the stores published one right after the other: u, then v
PublishedInARow(u, v) ==
    /\ u.Timestamp < v.Timestamp
    /\ ~\E w \in completed : u.Timestamp < w.Timestamp /\ w.Timestamp < v.Timestamp

\* C11: of two consecutive successful pipeline executions whose message is
\* published to readers, the second message differs from the first after
\* trimming, even when the language model returns the same text both times.
C11_PublishedMessagesDiffer ==
    prog = "updater" =>
        \A u, v \in completed :
            PublishedInARow(u, v) => TrimSpace(u.Message) # TrimSpace(v.Message)

\* the categories of the U.S. scale, in order, and the upper limits of all but
\* the last
Categories ==
    <<"Good", "Moderate", "Unhealthy for Sensitive Groups", "Unhealthy",
      "Very Unhealthy", "Hazardous">>

Limits == <<50, 100, 150, 200, 300>>

\* C12: the category kept with a value of the primary provider is the one
\* whose band holds the value: Good up to 50, Moderate up to 100, Unhealthy
\* for Sensitive Groups up to 150, Unhealthy up to 200, Very Unhealthy up to
\* 300 and Hazardous above, so that a higher value never gets a lower
\* category
C12_CategoryFollowsThresholds ==
    (Prepared /\ config.IQAirAPIKey # <<>> /\ call.in.iq.kind = "ok") =>
        LET band == Categories[1 + Cardinality({i \in 1..5 : call.in.iq.aqius > Limits[i]})]
        IN  /\ call.weather.IQAirData.Category = band
            /\ getAQICategory(call.in.iq.aqius) = band

C12_Witness ==
    /\ Prepared
    /\ call.in.iq.kind = "ok"
    /\ call.in.iq.aqius = 120
    /\ call.weather.IQAirData.Category = "Unhealthy for Sensitive Groups"
    /\ ret.aqi_description = "Unhealthy for Sensitive Groups"


AqiKeys == {"aqi", "aqi_description", "aqi_source"}

\* the labels of the secondary provider's index 1..5
IndexLabels == <<"Good", "Fair", "Moderate", "Poor", "Very Poor">>

\* C13: the emitted data has aqi, aqi_description and aqi_source all together
\* or none of them; with source IQAir the description is the U.S. category of
\* aqi; with source OpenWeatherMap aqi is the index 1..5 and the description
\* carries the index's own label (Good, Fair, Moderate, Poor, Very Poor), not
\* a U.S. category
C13_AqiFieldsConsistent ==
    Prepared =>
        /\ AqiKeys \subseteq DOMAIN ret \/ AqiKeys \cap DOMAIN ret = {}
        /\ AqiKeys \subseteq DOMAIN ret =>
            CASE ret.aqi_source = "IQAir" ->
                    /\ ret.aqi > 0
                    /\ ret.aqi_description =
                          Categories[1 + Cardinality({i \in 1..5 : ret.aqi > Limits[i]})]
              [] ret.aqi_source = "OpenWeatherMap" ->
                    /\ ret.aqi \in 1..5
                    /\ ret.aqi_description[1] = IndexLabels[ret.aqi]
              [] OTHER -> FALSE

C13_Witness ==
    /\ Prepared
    /\ AqiKeys \subseteq DOMAIN ret
    /\ ret.aqi_source = "OpenWeatherMap"
    /\ ret.aqi = 2
    /\ ret.aqi_description[1] = "Fair"


\* the snapshot's temperature is above 80 degrees Fahrenheit, the Celsius of
\* metric units converted (9/5 C + 32 > 80)
Above80F(weather, cfg) ==
    IF cfg.Units = "metric" THEN 9 * weather.Temp > 5 * (80 - 32) ELSE weather.Temp > 80

\* C14: heat_index is emitted exactly when the temperature is above 80
\* degrees Fahrenheit and the humidity above 40 per cent, in metric units
\* (Celsius converted) as in imperial ones, and it is never emitted as zero
C14_HeatIndexWhenHotAndHumid ==
    Prepared =>
        /\ "heat_index" \in DOMAIN ret <=>
              (Above80F(call.weather, config) /\ call.weather.Humidity > 40)
        /\ "heat_index" \in DOMAIN ret => ret.heat_index[1] > 0

C14_Witness ==
    /\ Prepared
    /\ config.Units = "metric"
    /\ call.weather.Temp = 30
    /\ call.weather.Humidity = 50
    /\ "heat_index" \in DOMAIN ret
    /\ ret.heat_index[2] = "C"


\* C15 as stated: the wind label is "N" for the bearing 0, "N" for the
\* bearing 44 and "NE" for the bearing 46
C15_LabelsAsStated ==
    Prepared =>
        /\ call.weather.WindDeg \in {0, 44} => ret.wind_direction_text = "N"
        /\ call.weather.WindDeg = 46 => ret.wind_direction_text = "NE"

\* C15: the wind label is "N" for the bearing 0 and "NE" for the bearings 44
\* and 46, both within 22.5 degrees of the centre 45 of NE
C15_LabelsOfCentredSectors ==
    Prepared =>
        /\ call.weather.WindDeg = 0 => ret.wind_direction_text = "N"
        /\ call.weather.WindDeg \in {44, 46} => ret.wind_direction_text = "NE"

C15_Witness ==
    /\ Prepared
    /\ call.weather.WindDeg = 44
    /\ ret.wind_direction = 44
    /\ ret.wind_direction_text = "NE"

CompassPoints == <<"N", "NE", "E", "SE", "S", "SW", "W", "NW">>

\* C16: for every whole bearing d in 0..360 the wind label is the compass
\* point whose centre (0, 45, ..., 315) is within 22.5 degrees of d, N taking
\* 337.5..360 as well as 0..22.5: the sector number is (d + 22.5) / 45 rounded
\* down, taken modulo 8, so every bearing has exactly one label
C16_CentredSectors ==
    (Prepared /\ call.weather.WindDeg \in 0..360) =>
        ret.wind_direction_text =
            CompassPoints[(((2 * call.weather.WindDeg + 45) \div 90) % 8) + 1]

C16_Witness ==
    /\ Prepared
    /\ call.weather.WindDeg = 338
    /\ ret.wind_direction_text = "N"


\* 29.53 days in seconds
SynodicMonth == 2953 * 864

MoonPhases ==
    {"New Moon", "Waxing Crescent", "First Quarter", "Waxing Gibbous", "Full Moon",
     "Waning Gibbous", "Last Quarter", "Waning Crescent"}

\* C17: the snapshot taken one synodic month (2551392 seconds) after this one
\* gets the same moon phase label, and the label is one of the eight phases
C17_MoonPhasePeriodic ==
    Prepared =>
        /\ ret.moon_phase \in MoonPhases
        /\ prepareWeatherData([call.weather EXCEPT !.Dt = @ + SynodicMonth], config).moon_phase
               = ret.moon_phase


Conditions ==
    {"Clear", "Mainly Clear", "Clouds", "Fog", "Drizzle", "Rain", "Snow",
     "Thunderstorm", "Unknown"}

\* the codes the condition switch puts in a bucket
Bucketed ==
    (0..3) \cup (45..49) \cup (51..59) \cup (61..69) \cup (71..82)
    \cup (85..86) \cup (95..99)

\* the codes with a description of their own
Described == {0, 1, 2, 3, 45, 48, 51, 53, 55, 61, 63, 65, 71, 73, 75, 95, 96, 99}

\* C18: for every weather code 0..99 the snapshot's condition is one of
\* Clear, Mainly Clear, Clouds, Fog, Drizzle, Rain, Snow, Thunderstorm and
\* Unknown, and it has a description; a code in no bucket gets "Unknown" and
\* a code without a description of its own gets "unknown conditions"
C18_EveryCodeHasLabel ==
    (Prepared /\ call.in.wx.cur.WeatherCode \in 0..99) =>
        /\ ret.weather_id = call.in.wx.cur.WeatherCode
        /\ ret.condition \in Conditions
        /\ ret.condition = "Unknown" <=> ret.weather_id \notin Bucketed
        /\ ret.description # ""
        /\ ret.description = "unknown conditions" <=> ret.weather_id \notin Described

C18_Witness ==
    /\ Prepared
    /\ call.in.wx.cur.WeatherCode = 4
    /\ ret.condition = "Unknown"
    /\ ret.description = "unknown conditions"


\* C19: each optional entry (heat_index, aqi, aqi_description, aqi_source,
\* sunrise, sunset, day_length, rain_1h, rain_3h, snow_1h, snow_3h) is absent
\* from the data when the snapshot lacks what it is made from, and an entry
\* that is present is never empty or zero
C19_OptionalFieldsOmitted ==
    Prepared =>
        LET w == call.weather
            has(k) == k \in DOMAIN ret
        IN  /\ has("heat_index") => ret.heat_index[1] > 0
            /\ has("aqi") => ret.aqi > 0
            /\ has("aqi_source") => ret.aqi_source # ""
            /\ has("aqi_description") =>
                   IF ret.aqi_source = "IQAir"
                   THEN ret.aqi_description # ""
                   ELSE Len(ret.aqi_description) > 0
            /\ (w.IQAirData.AQI = 0 /\ Len(w.AQIList) = 0) => AqiKeys \cap DOMAIN ret = {}
            /\ has("rain_1h") <=> w.Rain.OneHour > 0
            /\ has("rain_3h") <=> w.Rain.ThreeHours > 0
            /\ has("snow_1h") <=> w.Snow.OneHour > 0
            /\ has("snow_3h") <=> w.Snow.ThreeHours > 0
            /\ \A k \in {"rain_1h", "rain_3h", "snow_1h", "snow_3h"} : has(k) => ret[k][1] > 0
            /\ has("sunrise") => (w.Sunrise > 0 /\ ret.sunrise # <<>>)
            /\ has("sunset") => (w.Sunset > 0 /\ ret.sunset # <<>>)
            /\ has("day_length") => (w.Sunrise > 0 /\ w.Sunset > 0 /\ ret.day_length[1] > 0)


\* the hour on the wall clock of the place, as the weather provider gave it
WallHour == (call.in.wx.cur.Time.wall % 86400) \div 3600

\* the provider's time string is in a layout fetchWeather accepts
AcceptedLayout == \E i \in 1..Len(timeFormats) : timeFormats[i] = call.in.wx.cur.Time.layout

\* the local hour of the snapshot: the written one, or that of the server's
\* clock in the provider's zone when the string was not accepted
SnapshotHour ==
    IF AcceptedLayout
    THEN WallHour
    ELSE ((call.in.now + call.in.wx.TimezoneOffset) % 86400) \div 3600

\* C20: the data says daytime exactly when sunrise <= current time < sunset
\* if the snapshot has both sunrise and sunset, and otherwise exactly when the
\* local hour h has 6 <= h < 20; is_daytime and is_daytime_or_night agree
C20_DaytimeRule ==
    Prepared =>
        LET w == call.weather
        IN  /\ ret.is_daytime =
                  IF w.Sunrise > 0 /\ w.Sunset > 0
                  THEN w.Sunrise <= w.Dt /\ w.Dt < w.Sunset
                  ELSE 6 <= SnapshotHour /\ SnapshotHour < 20
            /\ ret.hour_of_day = SnapshotHour
            /\ ret.is_daytime_or_night = (IF ret.is_daytime THEN "DAYTIME" ELSE "NIGHTTIME")

C20_Witness ==
    /\ Prepared
    /\ call.weather.Sunrise > 0
    /\ call.weather.Sunset > 0
    /\ call.weather.Dt < call.weather.Sunrise
    /\ ret.hour_of_day = 6
    /\ ret.is_daytime = FALSE
    /\ ret.is_daytime_or_night = "NIGHTTIME"


\* the hour and minute written in the provider's time string, as HH:MM
Written1504 ==
    LET h == WallHour
        m == (call.in.wx.cur.Time.wall % 3600) \div 60
    IN  <<Digit(h \div 10), Digit(h % 10), ":", Digit(m \div 10), Digit(m % 10)>>

\* C21: for a provider time string in an accepted format and any provider
\* offset, the hour and minute shown for the snapshot (time_24h of the data,
\* the time the prompt restates, the time stamp of the dedup and the time of
\* the history digest) are the hour and minute written in the string: the
\* Unix time plus the offset gives back the wall clock that was written
C21_WallClockRoundTrip ==
    (Prepared /\ AcceptedLayout) =>
        LET w == call.weather
        IN  /\ w.Dt + w.Timezone = call.in.wx.cur.Time.wall
            /\ ret.time_24h = Written1504
            /\ promptTime(w) = Written1504
            /\ SubSeq(Stamped(w, <<"a">>), 2, 6) = Written1504
            /\ generateHistoryContext(<<w, w>>, config)[1].strs = Written1504

C21_Witness ==
    /\ Prepared
    /\ AcceptedLayout
    /\ call.weather.Timezone = 19800
    /\ call.in.wx.cur.Time.wall = Noon + 43140
    /\ ret.time_24h = <<"2", "3", ":", "5", "9">>


\* the snapshot w is the newest entry of weatherHistory
Newest(w) == Len(weatherHistory) > 0 /\ weatherHistory[Len(weatherHistory)] = w

\* update(): the tick got a snapshot, appended by the time its context was built
C22_Agent ==
    (prog = "agent" /\ lastTick.outcome \in {"stored", "llm_failed"}) =>
        /\ Newest(lastTick.weather)
        /\ Len(weatherHistory) = Min(Len(pushLog), HistoryCap)
        /\ lastTick.context = generateHistoryContext(weatherHistory, config)

\* the goroutine is about to build the history context of a fetched snapshot
C22_Updater ==
    (prog = "updater" /\ updater.pc = "generate") => Newest(updater.weather)

\* a handler of /api/weather is about to build the history context
C22_OnDemand ==
    prog = "ondemand" =>
        \A h \in DOMAIN handlers :
            handlers[h].pc = "generate" =>
                \E i \in 1..Len(weatherHistory) : weatherHistory[i] = handlers[h].weather

\* C22: an execution of the pipeline whose fetch succeeded has appended its
\* snapshot to weatherHistory, once, by the time it builds its history context,
\* in update(), in the /api/weather pipelines and in the updater goroutine; a
\* failed fetch appends nothing
C22_OneSnapshotPerExecution ==
    /\ C22_Agent
    /\ C22_Updater
    /\ C22_OnDemand
    /\ (prog = "agent" /\ lastTick.outcome = "fetch_failed") =>
           Len(weatherHistory) = Min(Len(pushLog), HistoryCap)


\* a tick of the agent or an iteration of the updater goroutine ends on the
\* error of its first language-model call
GenerationFailedStep ==
    \/ prog = "agent" /\ lastTick'.outcome = "llm_failed"
    \/ /\ prog = "updater"
       /\ updater.pc = "generate"
       /\ updater'.n = updater.n + 1

\* C23: a tick whose first language-model call fails (API error, no content
\* or an unsupported provider name) stores and publishes nothing: lastMessage
\* and latestWeather keep their values, and the program goes on to its next
\* tick or iteration, which can store a message
C23_FailedGenerationStoresNothing ==
    [][GenerationFailedStep =>
          /\ lastMessage' = lastMessage
          /\ latestWeather' = latestWeather
          /\ prog' = prog
          /\ prog = "updater" => updater'.pc = "fetch"]_vars

\* the updater's first iteration fetched and failed to generate, so that it
\* published nothing, and its second one has published
C23_Witness ==
    /\ prog = "updater"
    /\ updater.failedFetches = 0
    /\ Cardinality(completed) = 1
    /\ updater.n = 2
    /\ latestWeather.Timestamp = 2
    /\ latestWeather.Message # <<>>


\* C24: a tick of update() calls the language model at most twice; it makes
\* the second call only when the first text, trimmed, equals the trimmed
\* message stored before, and gives it the history context of the first call
\* with the request for a different message appended
C24_RetryOnlyOnDuplicate ==
    prog = "agent" =>
        /\ lastTick.llmCalls <= 2
        /\ lastTick.llmCalls = 2 <=> lastTick.retried
        /\ lastTick.retried =>
              /\ TrimSpace(lastTick.first) = TrimSpace(lastTick.before)
              /\ lastTick.retryContext = lastTick.context \o <<VariationRequest>>

C24_Witness ==
    /\ prog = "agent"
    /\ lastTick.retried
    /\ lastTick.llmCalls = 2
    /\ lastTick.before # <<>>
    /\ lastTick.context # <<>>
    /\ Len(lastTick.retryContext) = Len(lastTick.context) + 1


\* "[HH:MM] " of the local time of the snapshot w
TimeStamp(w) ==
    LET h == ((w.Dt + w.Timezone) % 86400) \div 3600
        m == ((w.Dt + w.Timezone) % 3600) \div 60
    IN  <<"[", Digit(h \div 10), Digit(h % 10), ":", Digit(m \div 10), Digit(m % 10), "]", " ">>

\* C25: the message a tick of update() stores is the first text when it does
\* not match the message stored before; otherwise the retry's text when the
\* retry succeeded and does not match either; otherwise the first text behind
\* "[HH:MM] " of the snapshot's local time, also when the retry failed
C25_StoredMessageIsOneOfThree ==
    (prog = "agent" /\ lastTick.outcome = "stored") =>
        lastMessage =
            IF TrimSpace(lastTick.first) # TrimSpace(lastTick.before)
            THEN lastTick.first
            ELSE IF ~lastTick.varied.err
                     /\ TrimSpace(lastTick.varied.text) # TrimSpace(lastTick.before)
            THEN lastTick.varied.text
            ELSE TimeStamp(lastTick.weather) \o lastTick.first

\* the retry failed and the tick stored the first text with the time stamp
C25_Witness ==
    /\ prog = "agent"
    /\ lastTick.outcome = "stored"
    /\ lastTick.retried
    /\ lastTick.varied.called
    /\ lastTick.varied.err
    /\ lastTick.first = <<"a">>
    /\ lastMessage = TimeStamp(lastTick.weather) \o <<"a">>


\* C26: with a primary air-quality key configured, of any length, the call
\* of fetchWeather returns: the key prefix taken for the log is never out of
\* range
C26_KeyPrefixNeverPanics ==
    (prog = "fetch" /\ call.fn = "fetchWeather" /\ config.IQAirAPIKey # <<>>) =>
        ret.status # "panic"

\* C27: whenever the primary provider answered the call for the snapshot,
\* also with the value 0, the data has aqi equal to its value and aqi_source
\* IQAir
C27_PrimaryReadingAlwaysEmitted ==
    (Prepared /\ config.IQAirAPIKey # <<>> /\ call.in.iq.kind = "ok") =>
        /\ "aqi" \in DOMAIN ret
        /\ "aqi_source" \in DOMAIN ret
        /\ ret.aqi = call.in.iq.aqius
        /\ ret.aqi_source = "IQAir"


London == <<"L", "o", "n", "d", "o", "n">>

\* C28: the city and country of a snapshot name the place whose coordinates
\* the weather request used: the configured city when it was geocoded, and
\* London when the geocoding failed and the default coordinates were used
C28_LabelMatchesCoordinates ==
    (prog = "fetch" /\ call.fn = "fetchWeather" /\ ret.status = "ok") =>
        IF call.in.geo.kind = "ok"
        THEN /\ ret.lat = call.in.geo.lat
             /\ ret.lon = call.in.geo.lon
             /\ ret.weather.Name = config.City
             /\ ret.weather.Country = config.CountryCode
        ELSE /\ ret.lat = LondonLat
             /\ ret.lon = LondonLon
             /\ ret.weather.Name = London


\* C29: when a handler of /api/weather builds the history context for its
\* snapshot, the entry of weatherHistory the digest describes is a snapshot of
\* the same city and country, whatever city-based and coordinate-based
\* requests and city changes came before
C29_DigestOfSameLocation ==
    prog = "ondemand" =>
        \A h \in DOMAIN handlers :
            (handlers[h].pc = "generate"
                /\ generateHistoryContext(weatherHistory, config) # <<>>) =>
                LET prevWeather == weatherHistory[Len(weatherHistory) - 1]
                IN  /\ prevWeather.Name = handlers[h].weather.Name
                    /\ prevWeather.Country = handlers[h].weather.Country


\* a request to /api/update-city is handled
UpdateCityStep ==
    \/ prog = "updater" /\ env' # env
    \/ prog = "ondemand" /\ updater'.received = updater.received + 1 /\ handlers' = handlers

\* a city-based execution of the pipeline starts: generateWeatherUpdate() in
\* the on-demand server
OnDemandStartStep(h) ==
    /\ prog = "ondemand"
    /\ handlers[h].pc = "idle"
    /\ handlers'[h].pc = "geocode"

\* an iteration of the updater goroutine fetches its snapshot
UpdaterFetchedStep ==
    /\ prog = "updater"
    /\ updater.pc = "fetch"
    /\ updater'.pc = "generate"

\* C30: once POST /api/update-city has set a city c, every city-based
\* execution that starts later geocodes c and names its snapshot c, in the
\* on-demand server and in the server with the updater goroutine; a POST
\* with an empty city changes nothing and one with an empty country keeps the
\* country that was active
C30_CityChangeTakesEffect ==
    [][/\ \A h \in DOMAIN handlers :
             (OnDemandStartStep(h) /\ "WEATHER_CITY" \in DOMAIN env) =>
                 /\ handlers'[h].city = env["WEATHER_CITY"]
                 /\ config'.City = env["WEATHER_CITY"]
       /\ (UpdaterFetchedStep /\ "WEATHER_CITY" \in DOMAIN env) =>
             updater'.weather.Name = env["WEATHER_CITY"]
       /\ UpdateCityStep =>
             \/ env' = env
             \/ /\ "WEATHER_CITY" \in DOMAIN env'
                /\ env'["WEATHER_CITY"] # <<>>
                /\ \/ "WEATHER_COUNTRY" \in DOMAIN env' /\ env'["WEATHER_COUNTRY"] # ""
                   \/ DOMAIN env' = DOMAIN env \cup {"WEATHER_CITY"}]_vars


====
